---------------------------- MODULE Spec2Model ----------------------------
(***************************************************************************)
(* A model of DICOMPlugins/DICOMTID1500Plugin.py (QuantitativeReporting):  *)
(* recognition of TID1500 structured reports, the concept matcher and the  *)
(* content-tree walk, the reference resolver, the ordering of reports by   *)
(* date and time, the batch load with its prior/follow-up links and the    *)
(* enumeration of duplicate column names.                                  *)
(*                                                                         *)
(* Every component has its own specification (SpecWalk, SpecConcept, ...); *)
(* the variables of the other components stay at their idle values.        *)
(***************************************************************************)
EXTENDS Integers, Sequences, FiniteSets, TLC

VARIABLES
  \* loadAdditionalMeasurements: the content-tree walk
  sr,              \* the structured report read from the file
  wpc,             \* "start", "walking", "done", "returned", "raised"
  wi,              \* number of top-level content items already walked
  measurements,    \* contents['measurements']
  personObserver   \* contents['personObserver'] (<<>> while the key is absent)

walkVars == <<sr, wpc, wi, measurements, personObserver>>

VARIABLES
  \* checkUsePlugin / checkIfSRContainsBbox / isConcept on two reports
  csr,             \* a report as highdicom and pydicom present it
  csr2,            \* a report that differs from csr in code meanings only
  cres,            \* the decisions taken on csr  (<<>> before they are taken)
  cres2            \* the decisions taken on csr2 (<<>> before they are taken)

conceptVars == <<csr, csr2, cres, cres2>>

VARIABLES
  \* createLoadableAndAddReferences
  datasets,        \* the reports it is given
  loadable,        \* the loadable it builds
  ri,              \* number of datasets already processed
  rpc              \* "loop", "done"

refsVars == <<datasets, loadable, ri, rpc>>

VARIABLES
  \* examineFiles
  xfiles,          \* number of files it is given
  xn,              \* number of files already read
  xds,             \* the dataset read last (<<>> before the first)
  xres,            \* what isDICOMTID1500 did on it (<<>> when it was not called)
  loadables,       \* the loadables collected
  xpc              \* "loop", "returned", "raised"

examineVars == <<xfiles, xn, xds, xres, loadables, xpc>>

VARIABLES
  \* sortReportsByDateTime
  suids,           \* the report UIDs to sort
  sdb,             \* the DICOM database: the dataset of each report UID
  skeys,           \* the key getDateTime gave for each UID (<<>> before)
  sorted,          \* the sorted UIDs
  spc              \* "keys", "compare", "sorted", "raised"

sortVars == <<suids, sdb, skeys, sorted, spc>>

VARIABLES
  \* load
  luids,           \* loadable.uids
  ldb,             \* the DICOM database: the dates of each report UID, or NoFile
  sortedUIDs,      \* the report UIDs in the order load takes them
  idx,             \* position in sortedUIDs of the next report, from 0
  tables,          \* the list tables: table nodes by number, or None
  tableNodes,      \* the table nodes of the scene, in the order of creation
  segNodes,        \* the segmentation nodes of the scene: the tags of their segments
  lineNodes,       \* number of line markups nodes of the scene
  paths,           \* how each report taken so far was read
  lpc,             \* "sort", "loop", "returned", "raised"
  lret             \* what load returned

loadVars == <<luids, ldb, sortedUIDs, idx, tables, tableNodes, segNodes,
              lineNodes, paths, lpc, lret>>

VARIABLES
  \* enumerateDuplicateNames
  infoItems,       \* the items it is given, whose names it rewrites
  names,           \* the names of the items as they were given
  counts,          \* for every name given more than once, how often
  nameListCopy,    \* the names being rewritten
  ei,              \* position of the next name to look at, counted from 1
  epc              \* "start", "loop", "returned"

enumVars == <<infoItems, names, counts, nameListCopy, ei, epc>>

VARIABLES
  \* generateMeasurementInformation
  measurementItems, \* the measurement items it is given
  crntInfos,        \* infoItems: the infos made so far
  gpc               \* "loop", "returned"

infoVars == <<measurementItems, crntInfos, gpc>>

VARIABLES
  \* extractBboxMetadataToVtkTableNode
  bsr,             \* the report: its evidence series and its planar ROI groups
  blocals,         \* the local variables the loop binds
  poly_infos,      \* poly_infos
  tableNode,       \* the rows of the table made last (<<>> before)
  bi,              \* number of groups already taken
  bpc              \* "start", "loop", "returned", "raised"

bboxVars == <<bsr, blocals, poly_infos, tableNode, bi, bpc>>

VARIABLES
  \* loadAdditionalMeasurements with its markups
  mreport,         \* the structured report read from the file
  mimages,         \* the database: the geometry of the images it has a file for
  mcontents,       \* contents: the measurements and the observer of the walk
  mnodes,          \* the line markups nodes of the scene, in the order of creation
  mk,              \* number of measurements already taken
  mpc              \* "walk", "markups", "returned", "raised"

markupsVars == <<mreport, mimages, mcontents, mnodes, mk, mpc>>

VARIABLES
  \* metadata2vtkTableNode
  tdata,           \* the metadata file
  tcolumns,        \* the names of the columns of the table
  trows,           \* the rows of the table, each a cell text per column
  tk,              \* measurements that have their row
  tpc              \* "open", "rows", "returned", "none", "raised"

tableVars == <<tdata, tcolumns, trows, tk, tpc>>

vars == <<walkVars, conceptVars, refsVars, examineVars, sortVars, loadVars, enumVars, infoVars, bboxVars, markupsVars, tableVars>>

\* what an action of one component leaves alone
notTable == <<walkVars, conceptVars, refsVars, examineVars, sortVars, loadVars, enumVars, infoVars, bboxVars, markupsVars>>
notMarkups == <<walkVars, conceptVars, refsVars, examineVars, sortVars, loadVars, enumVars, infoVars, bboxVars, tableVars>>
notBbox == <<walkVars, conceptVars, refsVars, examineVars, sortVars, loadVars, enumVars, infoVars, markupsVars, tableVars>>
notInfo == <<walkVars, conceptVars, refsVars, examineVars, sortVars, loadVars, enumVars, bboxVars, markupsVars, tableVars>>
notWalk == <<conceptVars, refsVars, examineVars, sortVars, loadVars, enumVars, infoVars, bboxVars, markupsVars, tableVars>>
notConcept == <<walkVars, refsVars, examineVars, sortVars, loadVars, enumVars, infoVars, bboxVars, markupsVars, tableVars>>
notRefs == <<walkVars, conceptVars, examineVars, sortVars, loadVars, enumVars, infoVars, bboxVars, markupsVars, tableVars>>
notExamine == <<walkVars, conceptVars, refsVars, sortVars, loadVars, enumVars, infoVars, bboxVars, markupsVars, tableVars>>
notLoad == <<walkVars, conceptVars, refsVars, examineVars, sortVars, enumVars, infoVars, bboxVars, markupsVars, tableVars>>
notEnum == <<walkVars, conceptVars, refsVars, examineVars, sortVars, loadVars, infoVars, bboxVars, markupsVars, tableVars>>
notSort == <<walkVars, conceptVars, refsVars, examineVars, loadVars, enumVars, infoVars, bboxVars, markupsVars, tableVars>>

(***************************************************************************)
(* Sequence helpers                                                        *)
(***************************************************************************)
Range(s) == {s[i] : i \in DOMAIN s}

RECURSIVE SeqsUpTo(_, _)
\* all sequences over S of length at most n
SeqsUpTo(S, n) ==
  IF n = 0 THEN {<<>>}
  ELSE LET shorter == SeqsUpTo(S, n - 1)
       IN  shorter \cup {Append(s, x) : s \in {t \in shorter : Len(t) = n - 1}, x \in S}

RECURSIVE Concat(_)
\* the concatenation of a sequence of sequences
Concat(ss) == IF ss = <<>> THEN <<>> ELSE ss[1] \o Concat(Tail(ss))

(***************************************************************************)
(* Coded concepts.  A code is (scheme designator, code value, code         *)
(* meaning); the registry self.codings holds (scheme, value) pairs.        *)
(***************************************************************************)
Code(s, v, m) == [CodingSchemeDesignator |-> s, CodeValue |-> v, CodeMeaning |-> m]

codings ==
  [imagingMeasurementReport |-> [scheme |-> "DCM", value |-> "126000"],
   personObserver           |-> [scheme |-> "DCM", value |-> "121008"],
   imagingMeasurements      |-> [scheme |-> "DCM", value |-> "126010"],
   measurementGroup         |-> [scheme |-> "DCM", value |-> "125007"],
   trackingIdentifier       |-> [scheme |-> "DCM", value |-> "112039"],
   trackingUniqueIdentifier |-> [scheme |-> "DCM", value |-> "112040"],
   findingSite              |-> [scheme |-> "SRT", value |-> "G-C0E3"],
   length                   |-> [scheme |-> "SRT", value |-> "G-D7FE"]]

\* item.ConceptNameCodeSequence[0] raises (AttributeError for an absent
\* sequence, IndexError for an empty one) when the item has no concept name.
isConceptRaises(item) == item.ConceptNameCodeSequence = <<>>

\* isConcept(item, coding), for an item on which it does not raise
isConceptMeaningToo(item, coding) ==
  LET code == item.ConceptNameCodeSequence[1]
  IN  /\ code.CodingSchemeDesignator = codings[coding].scheme
      /\ code.CodeValue = codings[coding].value
      /\ code.CodeMeaning # ""

isConceptValueOnly(item, coding) ==
  item.ConceptNameCodeSequence[1].CodeValue = codings[coding].value

isConcept(item, coding) ==
  LET code == item.ConceptNameCodeSequence[1]
  IN  /\ code.CodingSchemeDesignator = codings[coding].scheme
      /\ code.CodeValue = codings[coding].value

(***************************************************************************)
(* Content items.  The content tree of a report is kept in document        *)
(* (pre-)order: every item carries its depth below the root, and the       *)
(* ContentSequence of an item is the run of deeper items that follows it.  *)
(***************************************************************************)
NoValue == [TextValue |-> "", UID |-> "", PersonName |-> "",
            ConceptCodeSequence |-> <<>>, ContentSequence |-> <<>>]

Item(d, name, val) ==
  [depth |-> d, ConceptNameCodeSequence |-> name, value |-> val]

\* the SCOORD child of a length measurement with the image it is selected from
LengthItem(graphicData, sop) ==
  [GraphicData |-> graphicData,
   ContentSequence |-> <<[RelationshipType |-> "SELECTED FROM",
                          ReferencedSOPSequence |->
                            <<[ReferencedSOPInstanceUID |-> sop]>>]>>]

TopItemKinds ==
  { Item(1, <<Code("DCM", "126010", "Imaging Measurements")>>, NoValue),
    Item(1, <<Code("DCM", "121008", "Person Observer Name")>>,
         [NoValue EXCEPT !.PersonName = "Reader1"]),
    Item(1, <<Code("SRT", "126010", "Imaging Measurements")>>, NoValue),
    Item(1, <<>>, NoValue) }

GroupItemKinds ==
  { Item(2, <<Code("DCM", "125007", "Measurement Group")>>, NoValue),
    Item(2, <<Code("SRT", "125007", "Measurement Group")>>, NoValue),
    Item(2, <<>>, NoValue) }

MeasurementItemKinds ==
  { Item(3, <<Code("DCM", "112039", "Tracking Identifier")>>,
         [NoValue EXCEPT !.TextValue = "Tumor1"]),
    Item(3, <<Code("DCM", "112040", "Tracking Unique Identifier")>>,
         [NoValue EXCEPT !.UID = "1.2.3"]),
    Item(3, <<Code("SRT", "G-C0E3", "Finding Site")>>,
         [NoValue EXCEPT !.ConceptCodeSequence = <<Code("SRT", "T-62000", "Liver")>>]),
    Item(3, <<Code("SRT", "G-D7FE", "Length")>>,
         [NoValue EXCEPT !.ContentSequence = <<LengthItem(<<0, 0, 10, 0>>, "img1")>>]),
    Item(3, <<Code("SRT", "112039", "Tracking Identifier")>>,
         [NoValue EXCEPT !.TextValue = "Other"]),
    Item(3, <<>>, NoValue) }

ItemKinds == TopItemKinds \cup GroupItemKinds \cup MeasurementItemKinds

\* largest number of content items of a report of the model
MaxNodes == 4

\* a sequence of items is a tree in document order when it starts at depth 1
\* and no item lies more than one level below its predecessor
IsTree(t) ==
  \A j \in DOMAIN t : t[j].depth <= (IF j = 1 THEN 0 ELSE t[j - 1].depth) + 1

Trees(n) == {t \in [1..n -> ItemKinds] : IsTree(t)}

RootKinds ==
  { <<Code("DCM", "126000", "Imaging Measurement Report")>>,
    <<Code("DCM", "126001", "Oncology Measurement Report")>>,
    <<>> }

\* the reports with n content items
Reports(n) ==
  { [ConceptNameCodeSequence |-> r, items |-> t] : r \in RootKinds, t \in Trees(n) }

\* the positions of the children of item i (i = 0: of the root), in order
ContentSequence(items, i) ==
  LET d == IF i = 0 THEN 0 ELSE items[i].depth
      IsChild(j) == /\ j > i
                    /\ items[j].depth = d + 1
                    /\ \A k \in (i + 1)..j : items[k].depth > d
      kids == {j \in DOMAIN items : IsChild(j)}
      RECURSIVE InOrder(_)
      InOrder(S) == IF S = {} THEN <<>>
                    ELSE LET m == CHOOSE x \in S : \A y \in S : x <= y
                         IN  <<m>> \o InOrder(S \ {m})
  IN  InOrder(kids)


(***************************************************************************)
(* loadAdditionalMeasurements, lines 933-971: the walk of the content tree *)
(***************************************************************************)
\* measurement = {}: a dict, kept as the set of its keys and their values
EmptyMeasurement ==
  [keys |-> {}, trackingIdentifier |-> "", trackingUniqueIdentifier |-> "",
   findingSite |-> "", polyline |-> <<>>, referencedSOPInstanceUID |-> ""]

Put(m, key, val) == [m EXCEPT !.keys = @ \cup {key}, ![key] = val]

\* lines 965-968: the last reference of the last SELECTED FROM item wins
RECURSIVE ReadSelections(_, _, _)
ReadSelections(m, sels, k) ==
  IF k > Len(sels) THEN m
  ELSE LET refs == sels[k].ReferencedSOPSequence
           m2 == IF sels[k].RelationshipType = "SELECTED FROM" /\ Len(refs) > 0
                 THEN Put(m, "referencedSOPInstanceUID",
                          refs[Len(refs)].ReferencedSOPInstanceUID)
                 ELSE m
       IN  ReadSelections(m2, sels, k + 1)

\* lines 963-968: every child of a length item sets the polyline
RECURSIVE ReadLength(_, _, _)
ReadLength(m, lengthItems, k) ==
  IF k > Len(lengthItems) THEN m
  ELSE ReadLength(ReadSelections(Put(m, "polyline", lengthItems[k].GraphicData),
                                 lengthItems[k].ContentSequence, 1),
                  lengthItems, k + 1)

\* lines 956-962: one item of a measurement group
ReadMeasurementItem(m, mi) ==
  LET m1 == IF isConcept(mi, "trackingIdentifier")
            THEN Put(m, "trackingIdentifier", mi.value.TextValue) ELSE m
      m2 == IF isConcept(mi, "trackingUniqueIdentifier")
            THEN Put(m1, "trackingUniqueIdentifier", mi.value.UID) ELSE m1
      m3 == IF isConcept(mi, "findingSite")
            THEN Put(m2, "findingSite", mi.value.ConceptCodeSequence[1].CodeMeaning)
            ELSE m2
  IN  IF isConcept(mi, "length")
      THEN ReadLength(m3, mi.value.ContentSequence, 1) ELSE m3

\* lines 954-970: the items of one measurement group, until one raises
RECURSIVE WalkGroup(_, _, _, _)
WalkGroup(items, kids, k, m) ==
  IF k > Len(kids) THEN [raised |-> FALSE, measurement |-> m]
  ELSE IF isConceptRaises(items[kids[k]]) THEN [raised |-> TRUE, measurement |-> m]
  ELSE WalkGroup(items, kids, k + 1, ReadMeasurementItem(m, items[kids[k]]))

\* lines 952-971: the children of an 'imaging measurements' container; a
\* group's record is appended once all its items are read
RECURSIVE WalkContainerSkipping(_, _, _, _)
WalkContainerSkipping(items, kids, k, acc) ==
  IF k > Len(kids) THEN [raised |-> FALSE, measurements |-> acc]
  ELSE IF isConceptRaises(items[kids[k]]) THEN [raised |-> TRUE, measurements |-> acc]
  ELSE IF isConcept(items[kids[k]], "measurementGroup")
       THEN LET g == WalkGroup(items, ContentSequence(items, kids[k]), 1, EmptyMeasurement)
            IN  IF g.raised THEN [raised |-> TRUE, measurements |-> acc]
                ELSE WalkContainerSkipping(items, kids, k + 1,
                       IF g.measurement.keys = {} THEN acc ELSE Append(acc, g.measurement))
       ELSE WalkContainerSkipping(items, kids, k + 1, acc)

RECURSIVE WalkContainerPrepending(_, _, _, _)
WalkContainerPrepending(items, kids, k, acc) ==
  IF k > Len(kids) THEN [raised |-> FALSE, measurements |-> acc]
  ELSE IF isConceptRaises(items[kids[k]]) THEN [raised |-> TRUE, measurements |-> acc]
  ELSE IF isConcept(items[kids[k]], "measurementGroup")
       THEN LET g == WalkGroup(items, ContentSequence(items, kids[k]), 1, EmptyMeasurement)
            IN  IF g.raised THEN [raised |-> TRUE, measurements |-> acc]
                ELSE WalkContainerPrepending(items, kids, k + 1, <<g.measurement>> \o acc)
       ELSE WalkContainerPrepending(items, kids, k + 1, acc)

RECURSIVE WalkContainer(_, _, _, _)
WalkContainer(items, kids, k, acc) ==
  IF k > Len(kids) THEN [raised |-> FALSE, measurements |-> acc]
  ELSE IF isConceptRaises(items[kids[k]]) THEN [raised |-> TRUE, measurements |-> acc]
  ELSE IF isConcept(items[kids[k]], "measurementGroup")
       THEN LET g == WalkGroup(items, ContentSequence(items, kids[k]), 1, EmptyMeasurement)
            IN  IF g.raised THEN [raised |-> TRUE, measurements |-> acc]
                ELSE WalkContainer(items, kids, k + 1, Append(acc, g.measurement))
       ELSE WalkContainer(items, kids, k + 1, acc)

\* lines 939-947: read the report; a root of another concept returns at once
WalkStart ==
  /\ wpc = "start"
  /\ wpc' = IF isConceptRaises(sr) THEN "raised"
            ELSE IF ~isConcept(sr, "imagingMeasurementReport") THEN "returned"
            ELSE "walking"
  /\ UNCHANGED <<sr, wi, measurements, personObserver>>
  /\ UNCHANGED notWalk

\* lines 949-971: one item of sr.ContentSequence, on the contents so far
WalkTopItem(items, i, contents) ==
  IF isConceptRaises(items[i]) THEN [contents EXCEPT !.raised = TRUE]
  ELSE LET observer == IF isConcept(items[i], "personObserver")
                       THEN <<items[i].value.PersonName>> ELSE contents.personObserver
       IN  IF isConcept(items[i], "imagingMeasurements")
           THEN LET w == WalkContainer(items, ContentSequence(items, i), 1,
                                       contents.measurements)
                IN  [raised |-> w.raised, measurements |-> w.measurements,
                     personObserver |-> observer]
           ELSE [contents EXCEPT !.personObserver = observer]

\* lines 948-971: one item of sr.ContentSequence
WalkItem ==
  /\ wpc = "walking"
  /\ wi < Len(ContentSequence(sr.items, 0))
  /\ LET r == WalkTopItem(sr.items, ContentSequence(sr.items, 0)[wi + 1],
                          [raised |-> FALSE, measurements |-> measurements,
                           personObserver |-> personObserver])
     IN  /\ measurements' = r.measurements
         /\ personObserver' = r.personObserver
         /\ wpc' = IF r.raised THEN "raised" ELSE "walking"
         /\ wi' = IF r.raised THEN wi ELSE wi + 1
  /\ UNCHANGED sr
  /\ UNCHANGED notWalk

\* the loop over sr.ContentSequence is exhausted
WalkEnd ==
  /\ wpc = "walking"
  /\ wi = Len(ContentSequence(sr.items, 0))
  /\ wpc' = "done"
  /\ UNCHANGED <<sr, wi, measurements, personObserver>>
  /\ UNCHANGED notWalk

WalkInit ==
  /\ \E n \in 0..MaxNodes : sr \in Reports(n)
  /\ wpc = "start"
  /\ wi = 0
  /\ measurements = <<>>
  /\ personObserver = <<>>

WalkIdle ==
  /\ sr = [ConceptNameCodeSequence |-> <<>>, items |-> <<>>]
  /\ wpc = "idle"
  /\ wi = 0
  /\ measurements = <<>>
  /\ personObserver = <<>>


(***************************************************************************)
(* checkUsePlugin and checkIfSRContainsBbox, lines 169-224.  highdicom     *)
(* presents a report as its planar ROI measurement groups, each with the   *)
(* code of its reference type, the value type of its ROI and its           *)
(* qualitative evaluations (name code, value code).                        *)
(***************************************************************************)
PlanarGroup(ref, vt, evals) ==
  [reference_type |-> ref, roi_value_type |-> vt, qual_evals |-> evals]

QualEval(n, v) == [name |-> n, value |-> v]

ReferenceKinds ==
  { <<Code("DCM", "111030", "Image Region"), "SCOORD">>,
    <<Code("DCM", "111030", "Image Region"), "SCOORD3D">>,
    <<Code("DCM", "121214", "Referenced Segmentation Frame"), "IMAGE">> }

QualEvalKinds ==
  { QualEval(Code("DCM", "130400", "Geometric purpose of region"),
             Code("SCT", "75958009", "Bounded by")),
    QualEval(Code("DCM", "130400", "Geometric purpose of region"),
             Code("SCT", "26216008", "Center")),
    QualEval(Code("DCM", "121071", "Finding"),
             Code("SCT", "75958009", "Bounded by")) }

\* largest number of planar ROI measurement groups of a report
MaxPlanarGroups == 2
\* largest number of qualitative evaluations of a report, over all its groups
MaxEvals == 2

\* the lists of at most n groups that hold at most e evaluations together
RECURSIVE PlanarGroupLists(_, _)
PlanarGroupLists(n, e) ==
  IF n = 0 THEN {<<>>}
  ELSE {<<>>} \cup
       UNION { { <<PlanarGroup(rk[1], rk[2], evs)>> \o rest :
                   rest \in PlanarGroupLists(n - 1, e - Len(evs)) }
               : rk \in ReferenceKinds, evs \in SeqsUpTo(QualEvalKinds, e) }

\* lines 176-194
checkUsePluginIgnoringMeaning(groups) ==
  IF \E g \in Range(groups) :
       /\ g.reference_type.CodeValue = "111030"
       /\ g.reference_type.CodingSchemeDesignator = "DCM"
       /\ g.roi_value_type \in {"SCOORD", "SCOORD3D"}
  THEN 0 ELSE 1

checkUsePlugin(groups) ==
  IF \E g \in Range(groups) :
       /\ g.reference_type.CodeValue = "111030"
       /\ g.reference_type.CodingSchemeDesignator = "DCM"
       /\ g.reference_type.CodeMeaning = "Image Region"
       /\ g.roi_value_type \in {"SCOORD", "SCOORD3D"}
  THEN 0 ELSE 1

\* lines 214-222: every qualitative evaluation overwrites the answer
IsBoundedBy(qual_eval) ==
  /\ qual_eval.name.CodeValue = "130400"
  /\ qual_eval.name.CodingSchemeDesignator = "DCM"
  /\ qual_eval.name.CodeMeaning = "Geometric purpose of region"
  /\ qual_eval.value.CodeValue = "75958009"
  /\ qual_eval.value.CodingSchemeDesignator = "SCT"
  /\ qual_eval.value.CodeMeaning = "Bounded by"

RECURSIVE BboxOverEvals(_, _, _)
BboxOverEvals(evals, k, answer) ==
  IF k > Len(evals) THEN answer
  ELSE BboxOverEvals(evals, k + 1, IF IsBoundedBy(evals[k]) THEN 1 ELSE 0)

RECURSIVE BboxOverGroups(_, _, _)
BboxOverGroups(groups, k, answer) ==
  IF k > Len(groups) THEN answer
  ELSE BboxOverGroups(groups, k + 1, BboxOverEvals(groups[k].qual_evals, 1, answer))

\* lines 201-224
checkIfSRContainsBbox(groups) == BboxOverGroups(groups, 1, 0)

\* the decisions load and loadAdditionalMeasurements take on one report
Decisions(report) ==
  [isReport      |-> isConcept(report, "imagingMeasurementReport"),
   usePlugin     |-> checkUsePlugin(report.groups),
   containsBbox  |-> checkIfSRContainsBbox(report.groups)]

\* the same code with another code meaning
AltMeaning(code) == [code EXCEPT !.CodeMeaning = "(" \o @ \o ")"]

\* the report with the code meanings of the given roles replaced
Remeaned(report, roles) ==
  [ConceptNameCodeSequence |->
     IF "root" \in roles THEN <<AltMeaning(report.ConceptNameCodeSequence[1])>>
     ELSE report.ConceptNameCodeSequence,
   groups |->
     [k \in DOMAIN report.groups |->
        LET g == report.groups[k]
        IN  PlanarGroup(
              IF "reference" \in roles THEN AltMeaning(g.reference_type)
              ELSE g.reference_type,
              g.roi_value_type,
              [j \in DOMAIN g.qual_evals |->
                 QualEval(IF "name" \in roles THEN AltMeaning(g.qual_evals[j].name)
                          ELSE g.qual_evals[j].name,
                          IF "value" \in roles THEN AltMeaning(g.qual_evals[j].value)
                          ELSE g.qual_evals[j].value)])]]

MeaningRoles == {"root", "reference", "name", "value"}

ConceptReports ==
  { [ConceptNameCodeSequence |-> r, groups |-> gs] :
      r \in {k \in RootKinds : k # <<>>},
      gs \in PlanarGroupLists(MaxPlanarGroups, MaxEvals) }

ConceptInit ==
  /\ csr \in ConceptReports
  /\ csr2 \in { Remeaned(csr, {role}) : role \in MeaningRoles }
  /\ cres = <<>>
  /\ cres2 = <<>>

ConceptIdle ==
  /\ csr = <<>>
  /\ csr2 = <<>>
  /\ cres = <<>>
  /\ cres2 = <<>>

\* the decisions on the first report
DecideFirst ==
  /\ cres = <<>>
  /\ cres' = <<Decisions(csr)>>
  /\ UNCHANGED <<csr, csr2, cres2>>
  /\ UNCHANGED notConcept

\* the decisions on the report that differs in code meanings only
DecideSecond ==
  /\ cres2 = <<>>
  /\ cres2' = <<Decisions(csr2)>>
  /\ UNCHANGED <<csr, csr2, cres>>
  /\ UNCHANGED notConcept

(***************************************************************************)
(* Datasets and the reference resolver createLoadableAndAddReferences,     *)
(* lines 98-146                                                            *)
(***************************************************************************)
UID_EnhancedSRStorage == "1.2.840.10008.5.1.4.1.1.88.22"
UID_ComprehensiveSRStorage == "1.2.840.10008.5.1.4.1.1.88.33"
UID_Comprehensive3DSRStorage == "1.2.840.10008.5.1.4.1.1.88.34"
UID_SegmentationStorage == "1.2.840.10008.5.1.4.1.1.66.4"
UID_RealWorldValueMappingStorage == "1.2.840.10008.5.1.4.1.1.67"
\* a class that is neither of them: CT Image Storage
UID_CTImageStorage == "1.2.840.10008.5.1.4.1.1.2"

\* getDICOMValue(dataset, tag, default): the value of the tag, the default
\* when the dataset does not have it
getDICOMValue(dataset, tag, default) ==
  IF tag \in dataset.absent THEN default ELSE dataset[tag]

hasattr(dataset, tag) == tag \notin dataset.absent

Ref(cls, sop) == [ReferencedSOPClassUID |-> cls, ReferencedSOPInstanceUID |-> sop]
Series(uid, refs) == [SeriesInstanceUID |-> uid, ReferencedSOPSequence |-> refs]
Study(series) == [ReferencedSeriesSequence |-> series]

\* the evidence sequences of the reports of the model
EvidenceSequences ==
  { <<Study(<<Series("seg1", <<Ref(UID_SegmentationStorage, "seg1.1")>>)>>)>>,
    <<Study(<<Series("seg1", <<Ref(UID_SegmentationStorage, "seg1.1")>>),
              Series("rwvm1", <<Ref(UID_RealWorldValueMappingStorage, "rwvm1.1")>>)>>)>>,
    <<Study(<<Series("ct1", <<Ref(UID_CTImageStorage, "img1"),
                              Ref(UID_CTImageStorage, "img2")>>)>>),
      Study(<<Series("seg2", <<Ref(UID_SegmentationStorage, "seg2.1")>>)>>)>>,
    <<Study(<<Series("seg1", <<Ref(UID_SegmentationStorage, "seg1.1")>>),
              Series("seg2", <<Ref(UID_SegmentationStorage, "seg2.1")>>),
              Series("rwvm1", <<Ref(UID_RealWorldValueMappingStorage, "rwvm1.1")>>),
              Series("rwvm2", <<Ref(UID_RealWorldValueMappingStorage, "rwvm2.1")>>)>>)>>,
    <<Study(<<Series("seg3", <<Ref(UID_SegmentationStorage, "seg3.1"),
                               Ref(UID_SegmentationStorage, "seg3.2")>>)>>)>>,
    <<Study(<<Series("pt1", <<Ref(UID_CTImageStorage, "img3"),
                              Ref(UID_RealWorldValueMappingStorage, "rwvm3.1"),
                              Ref(UID_SegmentationStorage, "seg4.1")>>)>>)>>,
    <<>> }

\* a TID1500 report with the given instance UID; ev is <<e>> for a report
\* with the evidence sequence e and <<>> for a report without the attribute
Dataset(uid, ev) ==
  [SOPInstanceUID |-> uid,
   Modality |-> "SR",
   SOPClassUID |-> UID_ComprehensiveSRStorage,
   ContentTemplateSequence |-> <<[TemplateIdentifier |-> "1500", absent |-> {}]>>,
   SeriesDescription |-> "Measurements",
   CurrentRequestedProcedureEvidenceSequence |-> IF ev = <<>> THEN <<>> ELSE ev[1],
   absent |-> IF ev = <<>> THEN {"CurrentRequestedProcedureEvidenceSequence"} ELSE {}]

ReportUIDs == <<"sr1", "sr2", "sr3", "sr4">>

\* largest number of reports given to createLoadableAndAddReferences
MaxDatasets == 2

OptionalEvidence == {<<>>} \cup {<<e>> : e \in EvidenceSequences}

\* lists of reports with distinct instance UIDs
DatasetLists ==
  UNION { { [k \in 1..n |-> Dataset(ReportUIDs[k], evs[k])] :
              evs \in [1..n -> OptionalEvidence] }
          : n \in 1..MaxDatasets }

\* segPlugin.examine([slicer.dicomDatabase.filesForSeries(series)]): the
\* loadables of the segmentation series, each with the instances it references
SegExamine(series) ==
  CASE series = "seg1" -> <<[referencedInstanceUIDs |-> <<"img1", "img2">>]>>
    [] series = "seg2" -> <<[referencedInstanceUIDs |-> <<"img2", "img3">>],
                            [referencedInstanceUIDs |-> <<"img3", "img3">>]>>
    [] series = "seg3" -> <<[referencedInstanceUIDs |-> <<"img4">>]>>
    [] OTHER -> <<>>

\* lines 99-108
NewLoadable ==
  [referencedSegInstanceUIDs |-> <<>>,
   ReferencedSegmentationInstanceUIDs |-> [keys |-> <<>>, map |-> <<>>],
   ReferencedRWVMSeriesInstanceUIDs |-> <<>>,
   ReferencedOtherInstanceUIDs |-> <<>>,
   referencedInstanceUIDs |-> <<>>,
   warnings |-> <<>>]

\* d[k] = v on a dict, which keeps its keys in insertion order
DictSet(d, k, v) ==
  [keys |-> IF k \in Range(d.keys) THEN d.keys ELSE Append(d.keys, k),
   map  |-> [x \in DOMAIN d.map \cup {k} |-> IF x = k THEN v ELSE d.map[x]]]

\* lines 119-129: one (series, SOP) reference
ClassifyIfIf(l, uid, series, ref) ==
  LET l1 == IF ref.ReferencedSOPClassUID = UID_SegmentationStorage
            THEN [l EXCEPT !.ReferencedSegmentationInstanceUIDs.map[uid] =
                             Append(@, series.SeriesInstanceUID)]
            ELSE l
  IN  IF ref.ReferencedSOPClassUID = UID_RealWorldValueMappingStorage
      THEN [l1 EXCEPT !.ReferencedRWVMSeriesInstanceUIDs =
                        Append(@, series.SeriesInstanceUID)]
      ELSE [l1 EXCEPT !.ReferencedOtherInstanceUIDs =
                        Append(@, ref.ReferencedSOPInstanceUID)]

Classify(l, uid, series, ref) ==
  IF ref.ReferencedSOPClassUID = UID_SegmentationStorage
  THEN [l EXCEPT !.ReferencedSegmentationInstanceUIDs.map[uid] =
                   Append(@, series.SeriesInstanceUID)]
  ELSE IF ref.ReferencedSOPClassUID = UID_RealWorldValueMappingStorage
  THEN [l EXCEPT !.ReferencedRWVMSeriesInstanceUIDs =
                   Append(@, series.SeriesInstanceUID)]
  ELSE [l EXCEPT !.ReferencedOtherInstanceUIDs =
                   Append(@, ref.ReferencedSOPInstanceUID)]

\* line 118
RECURSIVE OverSOPs(_, _, _, _)
OverSOPs(l, uid, series, k) ==
  IF k > Len(series.ReferencedSOPSequence) THEN l
  ELSE OverSOPs(Classify(l, uid, series, series.ReferencedSOPSequence[k]),
                uid, series, k + 1)

\* line 117
RECURSIVE OverSeries(_, _, _, _)
OverSeries(l, uid, study, k) ==
  IF k > Len(study.ReferencedSeriesSequence) THEN l
  ELSE OverSeries(OverSOPs(l, uid, study.ReferencedSeriesSequence[k], 1),
                  uid, study, k + 1)

\* line 116
RECURSIVE OverEvidence(_, _, _, _)
OverEvidence(l, uid, evidence, k) ==
  IF k > Len(evidence) THEN l
  ELSE OverEvidence(OverSeries(l, uid, evidence[k], 1), uid, evidence, k + 1)

\* lines 133-134
RECURSIVE OverSegLoadables(_, _, _)
OverSegLoadables(l, segLoadables, k) ==
  IF k > Len(segLoadables) THEN l
  ELSE OverSegLoadables(
         [l EXCEPT !.referencedInstanceUIDs = @ \o segLoadables[k].referencedInstanceUIDs],
         segLoadables, k + 1)

\* lines 131-134
RECURSIVE OverSegSeries(_, _, _)
OverSegSeries(l, segSeries, k) ==
  IF k > Len(segSeries) THEN l
  ELSE OverSegSeries(OverSegLoadables(l, SegExamine(segSeries[k]), 1), segSeries, k + 1)

\* lines 113-134: one dataset of the loop
AddDataset(l, dataset) ==
  LET uid == getDICOMValue(dataset, "SOPInstanceUID", "")
      l1 == [l EXCEPT !.ReferencedSegmentationInstanceUIDs = DictSet(@, uid, <<>>)]
      l2 == IF hasattr(dataset, "CurrentRequestedProcedureEvidenceSequence")
            THEN OverEvidence(l1, uid, dataset.CurrentRequestedProcedureEvidenceSequence, 1)
            ELSE l1
  IN  OverSegSeries(l2, l2.ReferencedSegmentationInstanceUIDs.map[uid], 1)

\* list(set(xs)): the elements of xs once each, in an order the hash decides
KeepList(xs) == {xs}

ListOfSet(xs) ==
  { s \in [1..Cardinality(Range(xs)) -> Range(xs)] : Range(s) = Range(xs) }

\* lines 136-146, uid being the instance UID of the last dataset
FinishLoadable(l, uid) ==
  LET w1 == IF Len(l.ReferencedSegmentationInstanceUIDs.map[uid]) > 1
            THEN <<"SR references more than one SEG. This has not been tested!">>
            ELSE <<>>
      w2 == IF Len(l.ReferencedRWVMSeriesInstanceUIDs) > 1
            THEN <<"SR references more than one RWVM. This has not been tested!">>
            ELSE <<>>
  IN  { [l EXCEPT !.referencedInstanceUIDs = order,
                  !.referencedSegInstanceUIDs =
                     @ \o l.ReferencedSegmentationInstanceUIDs.keys,
                  !.warnings = @ \o w1 \o w2]
        : order \in ListOfSet(l.referencedInstanceUIDs) }

RECURSIVE AddDatasets(_, _, _)
AddDatasets(l, ds, k) ==
  IF k > Len(ds) THEN l ELSE AddDatasets(AddDataset(l, ds[k]), ds, k + 1)

\* the loadables a call can return (the datasets are never an empty list)
createLoadableAndAddReferences(ds) ==
  FinishLoadable(AddDatasets(NewLoadable, ds, 1),
                 getDICOMValue(ds[Len(ds)], "SOPInstanceUID", ""))

RefsInit ==
  /\ datasets \in DatasetLists
  /\ loadable = NewLoadable
  /\ ri = 0
  /\ rpc = "loop"

RefsIdle ==
  /\ datasets = <<>>
  /\ loadable = NewLoadable
  /\ ri = 0
  /\ rpc = "idle"

\* lines 112-134: the next dataset
RefsDataset ==
  /\ rpc = "loop"
  /\ ri < Len(datasets)
  /\ loadable' = AddDataset(loadable, datasets[ri + 1])
  /\ ri' = ri + 1
  /\ UNCHANGED <<datasets, rpc>>
  /\ UNCHANGED notRefs

\* lines 136-146: after the loop
RefsReturn ==
  /\ rpc = "loop"
  /\ ri = Len(datasets)
  /\ loadable' \in FinishLoadable(loadable,
                     getDICOMValue(datasets[Len(datasets)], "SOPInstanceUID", ""))
  /\ rpc' = "done"
  /\ UNCHANGED <<datasets, ri>>
  /\ UNCHANGED notRefs

(***************************************************************************)
(* isDICOMTID1500 and examineFiles, lines 49-96                            *)
(***************************************************************************)
\* the exception, if any, of
\* getDICOMValue(dataset, "ContentTemplateSequence")[0].TemplateIdentifier:
\* the default "" and an empty sequence have no item 0
TemplateLookup(dataset) ==
  IF ~hasattr(dataset, "ContentTemplateSequence") THEN "IndexError"
  ELSE IF dataset.ContentTemplateSequence = <<>> THEN "IndexError"
  ELSE IF ~hasattr(dataset.ContentTemplateSequence[1], "TemplateIdentifier")
       THEN "AttributeError"
  ELSE "none"

AcceptedSRClass(dataset) ==
  \/ getDICOMValue(dataset, "SOPClassUID", "") = UID_EnhancedSRStorage
  \/ getDICOMValue(dataset, "SOPClassUID", "") = UID_ComprehensiveSRStorage
  \/ getDICOMValue(dataset, "SOPClassUID", "") = UID_Comprehensive3DSRStorage

\* lines 80-89; 'and' evaluates the template only after modality and class
isDICOMTID1500CatchingAttributeError(dataset) ==
  LET modality == getDICOMValue(dataset, "Modality", "") = "SR"
      exception == IF modality /\ AcceptedSRClass(dataset)
                   THEN TemplateLookup(dataset) ELSE "none"
  IN  IF exception = "AttributeError" THEN [raised |-> FALSE, value |-> FALSE]
      ELSE IF exception # "none" THEN [raised |-> TRUE, value |-> FALSE]
      ELSE [raised |-> FALSE,
            value |-> /\ modality
                      /\ AcceptedSRClass(dataset)
                      /\ dataset.ContentTemplateSequence[1].TemplateIdentifier = "1500"]

isDICOMTID1500(dataset) ==
  LET modality == getDICOMValue(dataset, "Modality", "") = "SR"
      exception == IF modality /\ AcceptedSRClass(dataset)
                   THEN TemplateLookup(dataset) ELSE "none"
  IN  IF exception \in {"AttributeError", "IndexError"}
      THEN [raised |-> FALSE, value |-> FALSE]
      ELSE IF exception # "none" THEN [raised |-> TRUE, value |-> FALSE]
      ELSE [raised |-> FALSE,
            value |-> /\ modality
                      /\ AcceptedSRClass(dataset)
                      /\ dataset.ContentTemplateSequence[1].TemplateIdentifier = "1500"]

\* lines 91-96: the loadable never has a referencedSOPInstanceUID
referencedSeriesName(l) == "Unnamed Reference"

\* the datasets that pydicom.read_file can give for file k
FileDatasets(k) ==
  { [Dataset(ReportUIDs[k], ev) EXCEPT
       !.Modality = modality, !.SOPClassUID = class,
       !.ContentTemplateSequence = template,
       !.absent = @ \cup none]
    : ev \in {<<>>, <<CHOOSE e \in EvidenceSequences : Len(e) = 2>>},
      modality \in {"SR", "SEG"},
      class \in {UID_EnhancedSRStorage, UID_ComprehensiveSRStorage,
                 UID_Comprehensive3DSRStorage, UID_SegmentationStorage},
      template \in { <<>>,
                     <<[TemplateIdentifier |-> "1500", absent |-> {}]>>,
                     <<[TemplateIdentifier |-> "1501", absent |-> {}]>>,
                     <<[TemplateIdentifier |-> "", absent |-> {"TemplateIdentifier"}]>> },
      none \in { {}, {"SOPInstanceUID"}, {"Modality"}, {"SOPClassUID"},
                 {"ContentTemplateSequence"} } }

\* largest number of files given to examineFiles
MaxFiles == 2

ExamineInit ==
  /\ xfiles \in 1..MaxFiles
  /\ xn = 0
  /\ xds = <<>>
  /\ xres = <<>>
  /\ loadables = <<>>
  /\ xpc = "loop"

ExamineIdle ==
  /\ xfiles = 0
  /\ xn = 0
  /\ xds = <<>>
  /\ xres = <<>>
  /\ loadables = <<>>
  /\ xpc = "idle"

\* lines 64-75: the loadable of a recognised report
ExamineLoadable(l, k, dataset, uid) ==
  LET seriesDescription == getDICOMValue(dataset, "SeriesDescription", "Unknown")
      refName == referencedSeriesName(l)
  IN  [loadable |-> l,
       files |-> <<k>>,
       name |-> IF refName # "" THEN refName \o " " \o seriesDescription \o " - SR TID1500"
                ELSE seriesDescription \o " - as a DICOM SR TID1500 object",
       tooltip |-> seriesDescription \o " - as a DICOM SR TID1500 object",
       selected |-> TRUE,
       uids |-> <<uid>>]

\* lines 52-77: one file of the loop
ExamineFile ==
  /\ xpc = "loop"
  /\ xn < xfiles
  /\ \E dataset \in FileDatasets(xn + 1) :
       LET uid == getDICOMValue(dataset, "SOPInstanceUID", "")
           isDicomTID1500 == isDICOMTID1500(dataset)
       IN  /\ xds' = <<dataset>>
           /\ xn' = xn + 1
           /\ IF uid = ""
              THEN /\ xres' = <<>>
                   /\ loadables' = <<>>
                   /\ xpc' = "returned"
              ELSE /\ xres' = <<isDicomTID1500>>
                   /\ IF isDicomTID1500.raised
                      THEN /\ xpc' = "raised"
                           /\ UNCHANGED loadables
                      ELSE IF isDicomTID1500.value
                      THEN /\ \E l \in createLoadableAndAddReferences(<<dataset>>) :
                                loadables' = Append(loadables,
                                                    ExamineLoadable(l, xn + 1, dataset, uid))
                           /\ UNCHANGED xpc
                      ELSE UNCHANGED <<loadables, xpc>>
  /\ UNCHANGED xfiles
  /\ UNCHANGED notExamine

\* line 78
ExamineReturn ==
  /\ xpc = "loop"
  /\ xn = xfiles
  /\ xpc' = "returned"
  /\ UNCHANGED <<xfiles, xn, xds, xres, loadables>>
  /\ UNCHANGED notExamine

(***************************************************************************)
(* getDateTime and sortReportsByDateTime, lines 148-167.  A DICOM date or  *)
(* time string is the sequence of its characters: the digits 0..9 and,     *)
(* for any other character, Dot.                                           *)
(***************************************************************************)
Dot == 10

IsDigit(c) == c \in 0..9

\* the alternatives of the regular expression of a strptime directive, two
\* characters wide and one character wide:
\*   %m 1[0-2]|0[1-9]|[1-9]    %d 3[01]|[12]\d|0[1-9]|[1-9]
\*   %H 2[0-3]|[0-1]\d|\d      %M [0-5]\d|\d       %S 6[0-1]|[0-5]\d|\d
TwoWide(directive, a, b) ==
  /\ IsDigit(a) /\ IsDigit(b)
  /\ CASE directive = "m" -> (a = 1 /\ b <= 2) \/ (a = 0 /\ b >= 1)
       [] directive = "d" -> (a = 3 /\ b <= 1) \/ a \in {1, 2} \/ (a = 0 /\ b >= 1)
       [] directive = "H" -> (a = 2 /\ b <= 3) \/ a <= 1
       [] directive = "M" -> a <= 5
       [] directive = "S" -> (a = 6 /\ b <= 1) \/ a <= 5

OneWide(directive, a) ==
  /\ IsDigit(a)
  /\ directive \in {"m", "d"} => a >= 1

DateTimeFormat == <<"m", "d", "H", "M", "S">>

\* the first match, in the order of the alternatives, of the directives from
\* number f on at position p of s
RECURSIVE MatchFrom(_, _, _)
MatchFrom(s, p, f) ==
  IF f > Len(DateTimeFormat) THEN [ok |-> TRUE, fields |-> <<>>, end |-> p]
  ELSE LET wide == MatchFrom(s, p + 2, f + 1)
           narrow == MatchFrom(s, p + 1, f + 1)
       IN  IF p + 1 <= Len(s) /\ TwoWide(DateTimeFormat[f], s[p], s[p + 1]) /\ wide.ok
           THEN [wide EXCEPT !.fields = <<10 * s[p] + s[p + 1]>> \o @]
           ELSE IF p <= Len(s) /\ OneWide(DateTimeFormat[f], s[p]) /\ narrow.ok
           THEN [narrow EXCEPT !.fields = <<s[p]>> \o @]
           ELSE [ok |-> FALSE, fields |-> <<>>, end |-> p]

DaysInMonth(year, month) ==
  IF month = 2
  THEN IF (year % 4 = 0 /\ year % 100 # 0) \/ year % 400 = 0 THEN 29 ELSE 28
  ELSE IF month \in {4, 6, 9, 11} THEN 30 ELSE 31

\* the key of a report without a usable date and time: dateTime = ""
Sentinel == [valid |-> FALSE, t |-> <<>>]

\* lines 163-166: datetime.datetime.strptime(s, '%Y%m%d%H%M%S'), "" on a
\* ValueError (no match, unconverted data, a day or second out of range)
strptime(s) ==
  IF Len(s) < 4 \/ \E i \in 1..4 : ~IsDigit(s[i]) THEN Sentinel
  ELSE LET year == 1000 * s[1] + 100 * s[2] + 10 * s[3] + s[4]
           rest == MatchFrom(s, 5, 1)
       IN  IF /\ rest.ok
              /\ rest.end = Len(s) + 1
              /\ year >= 1
              /\ rest.fields[2] <= DaysInMonth(year, rest.fields[1])
              /\ rest.fields[5] <= 59
           THEN [valid |-> TRUE, t |-> <<year>> \o rest.fields]
           ELSE Sentinel

\* lines 152-167: line 159 takes the study date for the time
getDateTime(dataset) ==
  IF hasattr(dataset, "SeriesDate") /\ hasattr(dataset, "SeriesTime")
  THEN strptime(dataset.SeriesDate \o dataset.SeriesTime)
  ELSE IF hasattr(dataset, "StudyDate") /\ hasattr(dataset, "StudyTime")
  THEN strptime(dataset.StudyDate \o dataset.StudyDate)
  ELSE strptime(<<>>)

\* a < b on two keys of the same kind: datetimes by their fields, "" < ""
RECURSIVE LexLess(_, _)
LexLess(a, b) ==
  IF a = <<>> \/ b = <<>> THEN FALSE
  ELSE a[1] < b[1] \/ (a[1] = b[1] /\ LexLess(Tail(a), Tail(b)))

KeyLess(a, b) == LexLess(a.t, b.t)

\* a '<' between a datetime and a str raises TypeError; sorting two or more
\* keys compares every kind of key present with another
ComparisonRaises(keys) ==
  \E i, j \in DOMAIN keys : keys[i].valid /\ ~keys[j].valid

\* the stable ascending order of the positions 1..n by their keys
RECURSIVE InsertByKey(_, _, _)
InsertByKey(order, keys, i) ==
  IF order = <<>> THEN <<i>>
  ELSE IF KeyLess(keys[i], keys[order[Len(order)]])
       THEN Append(InsertByKey(SubSeq(order, 1, Len(order) - 1), keys, i),
                   order[Len(order)])
       ELSE Append(order, i)

RECURSIVE StableOrder(_, _)
StableOrder(keys, n) ==
  IF n = 0 THEN <<>> ELSE InsertByKey(StableOrder(keys, n - 1), keys, n)

\* line 149: sorted(uids, key=...) once the keys are there
Sorted(uids, keys) ==
  IF ComparisonRaises(keys) THEN [raised |-> TRUE, uids |-> <<>>]
  ELSE [raised |-> FALSE,
        uids |-> [k \in 1..Len(uids) |-> uids[StableOrder(keys, Len(keys))[k]]]]

\* lines 148-149
sortReportsByDateTime(uids, db) ==
  Sorted(uids, [k \in 1..Len(uids) |-> getDateTime(db[uids[k]])])

D20230101 == <<2, 0, 2, 3, 0, 1, 0, 1>>
D20220615 == <<2, 0, 2, 2, 0, 6, 1, 5>>
T100000 == <<1, 0, 0, 0, 0, 0>>
T090000 == <<0, 9, 0, 0, 0, 0>>

DateTimes(seriesDate, seriesTime, studyDate, studyTime, none) ==
  [SeriesDate |-> seriesDate, SeriesTime |-> seriesTime,
   StudyDate |-> studyDate, StudyTime |-> studyTime, absent |-> none]

\* the date and time attributes of the reports of the model
ReportDateTimes ==
  { DateTimes(D20230101, T100000, D20230101, T090000, {}),
    DateTimes(D20220615, T090000, D20220615, T090000, {}),
    DateTimes(D20230101, T090000, <<>>, <<>>, {"StudyDate", "StudyTime"}),
    \* no series date and time: the study's
    DateTimes(<<>>, <<>>, D20220615, T100000, {"SeriesDate", "SeriesTime"}),
    DateTimes(D20230101, <<>>, D20230101, T090000, {"SeriesTime"}),
    \* no date and time at all
    DateTimes(<<>>, <<>>, <<>>, <<>>,
              {"SeriesDate", "SeriesTime", "StudyDate", "StudyTime"}),
    \* a time with a fraction of a second, 100000.5
    DateTimes(D20230101, T100000 \o <<Dot, 5>>, D20230101, T100000, {}),
    \* a date one digit short: 2023111 101010 reads as 2023-11-11 01:01:00
    DateTimes(<<2, 0, 2, 3, 1, 1, 1>>, <<1, 0, 1, 0, 1, 0>>, <<>>, <<>>,
              {"StudyDate", "StudyTime"}) }

\* largest number of reports of a loadable
MaxReports == 3

SortInit ==
  /\ \E n \in 1..MaxReports :
       /\ suids = [k \in 1..n |-> ReportUIDs[k]]
       /\ sdb \in [{ReportUIDs[k] : k \in 1..n} -> ReportDateTimes]
  /\ skeys = <<>>
  /\ sorted = <<>>
  /\ spc = "keys"

SortIdle ==
  /\ suids = <<>>
  /\ sdb = <<>>
  /\ skeys = <<>>
  /\ sorted = <<>>
  /\ spc = "idle"

\* sorted() first takes the key of every element: getDateTime of every UID
SortKeys ==
  /\ spc = "keys"
  /\ skeys' = [k \in 1..Len(suids) |-> getDateTime(sdb[suids[k]])]
  /\ spc' = "compare"
  /\ UNCHANGED <<suids, sdb, sorted>>
  /\ UNCHANGED notSort

\* then it orders the elements by comparing the keys
SortCompare ==
  /\ spc = "compare"
  /\ LET r == Sorted(suids, skeys)
     IN  /\ sorted' = r.uids
         /\ spc' = IF r.raised THEN "raised" ELSE "sorted"
  /\ UNCHANGED <<suids, sdb, skeys>>
  /\ UNCHANGED notSort

(***************************************************************************)
(* load, lines 688-799, with metadata2vtkTableNode (844-863),              *)
(* assignTrackingUniqueIdentifier (807-820) and the markups part of        *)
(* loadAdditionalMeasurements (973-1007).  The scene holds table nodes,    *)
(* segmentation nodes and line markups; what tid1500reader writes, what    *)
(* the segmentation plugin loads and what the files hold are inputs.       *)
(***************************************************************************)
\* what metadata2vtkTableNode returns for a file without "Measurements"
None == 0

\* a report UID the database has no file for
NoFile == DateTimes(<<>>, <<>>, <<>>, <<>>, {"file"})

\* the dates and times of the reports a loadable names
LoadDateTimes ==
  { DateTimes(D20230101, T100000, D20230101, T090000, {}),
    DateTimes(D20220615, T090000, D20220615, T090000, {}),
    DateTimes(<<>>, <<>>, <<>>, <<>>,
              {"SeriesDate", "SeriesTime", "StudyDate", "StudyTime"}),
    NoFile }

\* what highdicom finds in the reports: an image region drawn as a
\* bounding box, one drawn around a centre point, a segmentation, nothing
LoadGroups ==
  { <<PlanarGroup(Code("DCM", "111030", "Image Region"), "SCOORD",
        <<QualEval(Code("DCM", "130400", "Geometric purpose of region"),
                   Code("SCT", "75958009", "Bounded by"))>>)>>,
    <<PlanarGroup(Code("DCM", "111030", "Image Region"), "SCOORD",
        <<QualEval(Code("DCM", "130400", "Geometric purpose of region"),
                   Code("SCT", "26216008", "Center"))>>)>>,
    <<PlanarGroup(Code("DCM", "121214", "Referenced Segmentation Frame"),
                  "IMAGE", <<>>)>>,
    <<>> }

\* the metadata files tid1500reader writes
JsonFiles ==
  { [keys |-> {"SeriesDescription"}, Measurements |-> <<>>],
    [keys |-> {"SeriesDescription", "Measurements"}, Measurements |-> <<>>],
    [keys |-> {"SeriesDescription", "Measurements"},
     Measurements |-> <<[TrackingUniqueIdentifier |-> "1.2.3"]>>],
    [keys |-> {"SeriesDescription", "Measurements"},
     Measurements |-> <<[TrackingUniqueIdentifier |-> "1.2.3"],
                        [TrackingUniqueIdentifier |-> "1.2.4"]>>] }

\* the content trees of the reports that are loaded
LoadTrees ==
  { <<>>,
    << Item(1, <<Code("DCM", "126010", "Imaging Measurements")>>, NoValue),
       Item(2, <<Code("DCM", "125007", "Measurement Group")>>, NoValue),
       Item(3, <<Code("DCM", "112039", "Tracking Identifier")>>,
            [NoValue EXCEPT !.TextValue = "Tumor1"]) >>,
    << Item(1, <<Code("DCM", "121008", "Person Observer Name")>>,
            [NoValue EXCEPT !.PersonName = "Reader1"]),
       Item(1, <<Code("DCM", "126010", "Imaging Measurements")>>, NoValue),
       Item(2, <<Code("DCM", "125007", "Measurement Group")>>, NoValue),
       Item(3, <<Code("SRT", "G-D7FE", "Length")>>,
            [NoValue EXCEPT !.ContentSequence =
                              <<LengthItem(<<0, 0, 10, 0>>, "img1")>>]) >>,
    << Item(1, <<Code("DCM", "126010", "Imaging Measurements")>>, NoValue),
       Item(2, <<Code("DCM", "125007", "Measurement Group")>>, NoValue),
       Item(3, <<Code("SRT", "G-D7FE", "Length")>>,
            [NoValue EXCEPT !.ContentSequence =
                              <<LengthItem(<<0, 0, 10, 0>>, "img1")>>]) >>,
    << Item(1, <<Code("DCM", "126010", "Imaging Measurements")>>, NoValue),
       Item(2, <<>>, NoValue) >> }

LoadReports ==
  { [ConceptNameCodeSequence |-> r, items |-> t] :
      r \in { <<Code("DCM", "126000", "Imaging Measurement Report")>> },
      t \in LoadTrees }

\* what the segmentation plugin adds to the scene for one report: nothing,
\* or a segmentation node with one segment whose tag is not yet set
SegLoads == { <<>>, << <<"">> >> }

CLIStatus == {"Completed", "Completed with errors"}

\* lines 873-879: a new table node (report: the report it is read from)
NewTable(kind, uid) ==
  [kind |-> kind, report |-> uid, PriorReportUID |-> "", FollowUpReportUID |-> "",
   SOPInstanceUID |-> "", ReferencedSegmentationNodeID |-> 0]

\* lines 844-863
metadata2vtkTableNode(data, nodes, uid) ==
  IF "Measurements" \notin data.keys
  THEN [raised |-> FALSE, table |-> None, nodes |-> nodes]
  ELSE IF Len(data.Measurements) = 0
  THEN [raised |-> TRUE, table |-> None, nodes |-> nodes]
  ELSE [raised |-> FALSE, table |-> Len(nodes) + 1,
        nodes |-> Append(nodes, NewTable("measurements", uid))]

\* lines 815-819: the k-th measurement tags the k-th segment
RECURSIVE assignTrackingUniqueIdentifier(_, _, _)
assignTrackingUniqueIdentifier(data, segments, k) ==
  IF k > Len(data.Measurements) THEN [raised |-> FALSE, segments |-> segments]
  ELSE IF k > Len(segments) THEN [raised |-> TRUE, segments |-> segments]
  ELSE assignTrackingUniqueIdentifier(
         data, [segments EXCEPT ![k] = data.Measurements[k].TrackingUniqueIdentifier],
         k + 1)

\* lines 762-772: the table of the report at position i (counted from 0) of
\* uids is tied to the last segmentation node and to the report before it
RelateTable(nodes, tbls, segs, table, i, uids, data) ==
  IF Len(segs) > 0
  THEN LET n1 == [nodes EXCEPT ![table].ReferencedSegmentationNodeID = Len(segs)]
           n2 == IF i - 1 > -1 THEN [n1 EXCEPT ![table].PriorReportUID = uids[i]]
                 ELSE n1
           \* tables[idx-1]: IndexError past the end, AttributeError on None
           followUpRaises == i - 1 > -1 /\ (i > Len(tbls) \/ tbls[i] = None)
       IN  IF followUpRaises THEN [raised |-> TRUE, nodes |-> n2, segs |-> segs]
           ELSE LET n3 == IF i - 1 > -1
                          THEN [n2 EXCEPT ![tbls[i]].FollowUpReportUID = uids[i + 1]]
                          ELSE n2
                    n4 == [n3 EXCEPT ![table].SOPInstanceUID = uids[i + 1]]
                    a == assignTrackingUniqueIdentifier(data, segs[Len(segs)], 1)
                IN  [raised |-> a.raised, nodes |-> n4,
                     segs |-> [segs EXCEPT ![Len(segs)] = a.segments]]
  ELSE [raised |-> FALSE, nodes |-> nodes, segs |-> segs]

\* lines 948-971: the walk over all of sr.ContentSequence, until one raises
RECURSIVE WalkFrom(_, _, _)
WalkFrom(items, k, contents) ==
  IF k > Len(ContentSequence(items, 0)) \/ contents.raised THEN contents
  ELSE WalkFrom(items, k + 1,
                WalkTopItem(items, ContentSequence(items, 0)[k], contents))

\* lines 973-1007: a line node for every measurement with a polyline;
\* images are the instances the database has a file for
RECURSIVE AddMarkups(_, _, _, _)
AddMarkups(contents, k, images, lines) ==
  IF k > Len(contents.measurements) THEN [raised |-> FALSE, lines |-> lines]
  ELSE IF "polyline" \notin contents.measurements[k].keys
  THEN AddMarkups(contents, k + 1, images, lines)
  ELSE IF \/ contents.personObserver = <<>>
          \/ "referencedSOPInstanceUID" \notin contents.measurements[k].keys
          \/ contents.measurements[k].referencedSOPInstanceUID \notin images
  THEN [raised |-> TRUE, lines |-> lines + 1]
  ELSE AddMarkups(contents, k + 1, images, lines + 1)

\* lines 933-1007
loadAdditionalMeasurements(report, images, lines) ==
  IF isConceptRaises(report) THEN [raised |-> TRUE, lines |-> lines]
  ELSE IF ~isConcept(report, "imagingMeasurementReport")
  THEN [raised |-> FALSE, lines |-> lines]
  ELSE LET contents == WalkFrom(report.items, 1,
                                [raised |-> FALSE, measurements |-> <<>>,
                                 personObserver |-> <<>>])
       IN  IF contents.raised THEN [raised |-> TRUE, lines |-> lines]
           ELSE AddMarkups(contents, 1, images, lines)

LoadInit ==
  /\ \E n \in 1..MaxReports :
       /\ luids = [k \in 1..n |-> ReportUIDs[k]]
       /\ ldb \in [{ReportUIDs[k] : k \in 1..n} -> LoadDateTimes]
  /\ sortedUIDs = <<>>
  /\ idx = 0
  /\ tables = <<>>
  /\ tableNodes = <<>>
  /\ segNodes = <<>>
  /\ lineNodes = 0
  /\ paths = <<>>
  /\ lpc = "sort"
  /\ lret = FALSE

LoadIdle ==
  /\ luids = <<>>
  /\ ldb = <<>>
  /\ sortedUIDs = <<>>
  /\ idx = 0
  /\ tables = <<>>
  /\ tableNodes = <<>>
  /\ segNodes = <<>>
  /\ lineNodes = 0
  /\ paths = <<>>
  /\ lpc = "idle"
  /\ lret = FALSE

\* line 696: getDateTime reads the file of every UID, then sorted() compares
LoadSort ==
  /\ lpc = "sort"
  /\ IF \E k \in 1..Len(luids) : ldb[luids[k]] = NoFile
     THEN lpc' = "raised" /\ sortedUIDs' = sortedUIDs
     ELSE LET r == sortReportsByDateTime(luids, ldb)
          IN  /\ sortedUIDs' = r.uids
              /\ lpc' = IF r.raised THEN "raised" ELSE "loop"
  /\ UNCHANGED <<luids, ldb, idx, tables, tableNodes, segNodes, lineNodes, paths, lret>>
  /\ UNCHANGED notLoad

\* how one pass of the loop of line 703 leaves the state
LoadStep(pc, ret, tbls, nodes, segs, lines, path) ==
  /\ lpc' = pc
  /\ lret' = ret
  /\ idx' = IF pc = "loop" THEN idx + 1 ELSE idx
  /\ tables' = tbls
  /\ tableNodes' = nodes
  /\ segNodes' = segs
  /\ lineNodes' = lines
  /\ paths' = Append(paths, path)
  /\ UNCHANGED <<luids, ldb, sortedUIDs>>

\* lines 730-735: the planar ROI groups of the reports that checkUsePlugin
\* sends to tid1500reader
PluginGroups == {groups \in LoadGroups : checkUsePlugin(groups) = 1}

\* lines 703-778: one report that checkUsePlugin sends to tid1500reader
LoadReportPlugin ==
  /\ lpc = "loop"
  /\ idx < Len(sortedUIDs)
  /\ ldb[sortedUIDs[idx + 1]] # NoFile => PluginGroups # {}
  /\ \E loaded \in SegLoads, reader \in BOOLEAN,
        status \in CLIStatus, data \in JsonFiles, report \in LoadReports,
        images \in SUBSET {"img1"} :
       /\ LET uid == sortedUIDs[idx + 1]
              segs == segNodes \o loaded
              t == metadata2vtkTableNode(data, tableNodes, uid)
              r == IF t.table # None
                   THEN RelateTable(t.nodes, tables, segs, t.table, idx, sortedUIDs, data)
                   ELSE [raised |-> FALSE, nodes |-> t.nodes, segs |-> segs]
              m == loadAdditionalMeasurements(report, images, lineNodes)
          IN  IF ldb[uid] = NoFile \/ ~reader \/ status # "Completed"
              THEN LoadStep("returned", FALSE, tables, tableNodes, segs, lineNodes, "none")
              ELSE IF t.raised
              THEN LoadStep("raised", FALSE, tables, tableNodes, segs, lineNodes, "plugin")
              ELSE IF r.raised
              THEN LoadStep("raised", FALSE, tables, r.nodes, r.segs, lineNodes, "plugin")
              ELSE LoadStep(IF m.raised THEN "raised" ELSE "loop", FALSE,
                            Append(tables, t.table), r.nodes, r.segs, m.lines, "plugin")
  /\ UNCHANGED notLoad

\* lines 703-731, 781-796: one report that is read with highdicom; its table
\* is shown in the scene and is not put into tables
LoadReportHighdicom ==
  /\ lpc = "loop"
  /\ idx < Len(sortedUIDs)
  /\ ldb[sortedUIDs[idx + 1]] # NoFile
  /\ \E loaded \in SegLoads, groups \in LoadGroups :
       /\ checkUsePlugin(groups) = 0
       /\ LET kind == IF checkIfSRContainsBbox(groups) = 1 THEN "bbox" ELSE "point"
          IN  LoadStep("loop", FALSE, tables,
                       Append(tableNodes, NewTable(kind, sortedUIDs[idx + 1])),
                       segNodes \o loaded, lineNodes, kind)
  /\ UNCHANGED notLoad

\* line 799 with the answer made of the tables that exist
LoadReturnOfTables ==
  /\ lpc = "loop"
  /\ idx = Len(sortedUIDs)
  /\ lpc' = "returned"
  /\ lret' = (\E k \in DOMAIN tables : tables[k] # None)
  /\ UNCHANGED <<luids, ldb, sortedUIDs, idx, tables, tableNodes, segNodes,
                 lineNodes, paths>>
  /\ UNCHANGED notLoad

\* line 799
LoadReturn ==
  /\ lpc = "loop"
  /\ idx = Len(sortedUIDs)
  /\ lpc' = "returned"
  /\ lret' = (Len(tables) > 0)
  /\ UNCHANGED <<luids, ldb, sortedUIDs, idx, tables, tableNodes, segNodes,
                 lineNodes, paths>>
  /\ UNCHANGED notLoad

(***************************************************************************)
(* enumerateDuplicateNames, lines 914-927, on the column information       *)
(* generateMeasurementInformation makes of the items of a measurement.     *)
(***************************************************************************)
\* the column names of the model; the last one looks like a numbered name
ItemNames == {"Mean [HU]", "Volume [mm3]", "Mean [HU] (1)"}

\* largest number of measurement items of a measurement
MaxItems == 4

InfoItem(n) == [name |-> n, unit |-> "unit", description |-> n]

DecimalDigits == <<"0", "1", "2", "3", "4", "5", "6", "7", "8", "9">>

\* str() of a natural number
RECURSIVE str(_)
str(n) ==
  IF n < 10 THEN DecimalDigits[n + 1]
  ELSE str(n \div 10) \o DecimalDigits[(n % 10) + 1]

\* the name of every occurrence but the first gets the counter
NumberedUnlessFirst(n, count) ==
  IF count = 1 THEN n ELSE n \o " (" \o str(count) \o ")"

\* line 922: name += " (%s)" % str(count)
Numbered(n, count) == n \o " (" \o str(count) \o ")"

\* line 916: Counter(names), the names that occur more than once only
Counter(ns) ==
  LET occurrences(n) == Cardinality({k \in DOMAIN ns : ns[k] = n})
  IN  [n \in {m \in Range(ns) : occurrences(m) > 1} |-> occurrences(n)]

EnumInit ==
  /\ infoItems \in {[k \in DOMAIN ns |-> InfoItem(ns[k])] : ns \in SeqsUpTo(ItemNames, MaxItems)}
  /\ names = <<>>
  /\ counts = <<>>
  /\ nameListCopy = <<>>
  /\ ei = 0
  /\ epc = "start"

EnumIdle ==
  /\ infoItems = <<>>
  /\ names = <<>>
  /\ counts = <<>>
  /\ nameListCopy = <<>>
  /\ ei = 0
  /\ epc = "idle"

\* lines 915-917
EnumStart ==
  /\ epc = "start"
  /\ names' = [k \in DOMAIN infoItems |-> infoItems[k].name]
  /\ counts' = Counter([k \in DOMAIN infoItems |-> infoItems[k].name])
  /\ nameListCopy' = [k \in DOMAIN infoItems |-> infoItems[k].name]
  /\ ei' = Len(infoItems)
  /\ epc' = "loop"
  /\ UNCHANGED infoItems
  /\ UNCHANGED notEnum

\* lines 919-923: one name, from the last to the first
EnumName ==
  /\ epc = "loop"
  /\ ei >= 1
  /\ IF names[ei] \in DOMAIN counts /\ counts[names[ei]] # 0
     THEN /\ nameListCopy' = [nameListCopy EXCEPT
                                ![ei] = Numbered(@, counts[names[ei]])]
          /\ counts' = [counts EXCEPT ![names[ei]] = @ - 1]
     ELSE UNCHANGED <<nameListCopy, counts>>
  /\ ei' = ei - 1
  /\ UNCHANGED <<infoItems, names, epc>>
  /\ UNCHANGED notEnum

\* lines 925-927
EnumReturn ==
  /\ epc = "loop"
  /\ ei = 0
  /\ infoItems' = [k \in DOMAIN infoItems |->
                     [infoItems[k] EXCEPT !.name = nameListCopy[k]]]
  /\ epc' = "returned"
  /\ UNCHANGED <<names, counts, nameListCopy, ei>>
  /\ UNCHANGED notEnum

(***************************************************************************)
(* generateMeasurementInformation, lines 894-912, on the measurementItems  *)
(* of a measurement of the metadata file.  A code value is kept as the     *)
(* pieces it is made of, so that its brackets can be taken out.            *)
(***************************************************************************)
UnitCode(valuePieces, meaning) == [CodeValue |-> valuePieces, CodeMeaning |-> meaning]

\* a measurement item of the metadata file; modifier <<>>: the item has no
\* derivationModifier key
MeasurementItem(quantity, units, modifier, v) ==
  [keys |-> {"value", "units", "quantity"} \cup
            (IF modifier = <<>> THEN {} ELSE {"derivationModifier"}),
   value |-> v,
   units |-> units,
   quantity |-> [CodeMeaning |-> quantity],
   derivationModifier |-> [CodeMeaning |-> IF modifier = <<>> THEN "" ELSE modifier[1]]]

JsonItemKinds ==
  { MeasurementItem("Attenuation Coefficient",
                    UnitCode(<<"[", "hnsf'U", "]">>, "Hounsfield unit"), <<"Mean">>, "37.2"),
    MeasurementItem("Attenuation Coefficient",
                    UnitCode(<<"[", "hnsf'U", "]">>, "Hounsfield unit"), <<"Maximum">>, "90"),
    MeasurementItem("Attenuation Coefficient",
                    UnitCode(<<"[", "hnsf'U", "]">>, "Hounsfield unit"), <<>>, "12"),
    MeasurementItem("Volume", UnitCode(<<"mm3">>, "cubic millimeter"), <<>>, "1500"),
    MeasurementItem("Length", UnitCode(<<"mm">>, "mm"), <<>>, "10") }

\* str.replace("[", "").replace("]", "") on the pieces of a string
RECURSIVE WithoutBrackets(_)
WithoutBrackets(pieces) ==
  IF pieces = <<>> THEN ""
  ELSE (IF Head(pieces) \in {"[", "]"} THEN "" ELSE Head(pieces))
       \o WithoutBrackets(Tail(pieces))

\* the info that names a column after the quantity, whatever the modifier
InfoOfQuantity(measurementItem) ==
  [unit |-> measurementItem.units.CodeMeaning,
   name |-> measurementItem.quantity.CodeMeaning \o " [" \o
            WithoutBrackets(measurementItem.units.CodeValue) \o "]",
   description |-> measurementItem.quantity.CodeMeaning]

\* lines 898-909: crntInfo of one measurement item
InfoOf(measurementItem) ==
  LET unit == measurementItem.units.CodeValue
      description == IF "derivationModifier" \in measurementItem.keys
                     THEN measurementItem.derivationModifier.CodeMeaning
                     ELSE measurementItem.quantity.CodeMeaning
  IN  [unit |-> measurementItem.units.CodeMeaning,
       name |-> description \o " [" \o WithoutBrackets(unit) \o "]",
       description |-> description]

InfoInit ==
  /\ measurementItems \in SeqsUpTo(JsonItemKinds, MaxItems)
  /\ crntInfos = <<>>
  /\ gpc = "loop"

InfoIdle ==
  /\ measurementItems = <<>>
  /\ crntInfos = <<>>
  /\ gpc = "idle"

\* lines 896-911: one measurement item
InfoNext ==
  /\ gpc = "loop"
  /\ Len(crntInfos) < Len(measurementItems)
  /\ crntInfos' = Append(crntInfos, InfoOf(measurementItems[Len(crntInfos) + 1]))
  /\ UNCHANGED <<measurementItems, gpc>>
  /\ UNCHANGED notInfo

\* line 912
InfoReturn ==
  /\ gpc = "loop"
  /\ Len(crntInfos) = Len(measurementItems)
  /\ gpc' = "returned"
  /\ UNCHANGED <<measurementItems, crntInfos>>
  /\ UNCHANGED notInfo

(***************************************************************************)
(* extractBboxMetadataToVtkTableNode, lines 395-471, with getIPPFromSOP    *)
(* (226-257) and createBboxTable (272-325).  Lengths are counted in halves *)
(* of a pixel, so that the half of a width is a whole number.              *)
(***************************************************************************)
\* the pixel coordinates a graphic data may hold
Coords == {-1, 0, 2}

Halves(c) == c + c

\* the graphic data of 4 (x, y) pairs
Polylines == { [k \in 1..8 |-> Halves(p[k])] : p \in [1..8 -> Coords] }

\* z of ImagePositionPatient of the images of the referenced series
SeriesIPP == [img1 |-> Halves(10), img2 |-> Halves(15)]

BoundedBy ==
  QualEval(Code("DCM", "130400", "Geometric purpose of region"),
           Code("SCT", "75958009", "Bounded by"))

\* a planar ROI measurement group as highdicom presents it; type <<>>: no
\* finding type; sops: the referenced instances of the ROI
BboxGroup(ref, graphicType, graphicData, sops, type, sites, tid) ==
  [reference_type |-> ref, roi_value_type |-> "SCOORD", qual_evals |-> <<BoundedBy>>,
   tracking_identifier |-> tid, tracking_uid |-> "1.2." \o tid,
   finding_type |-> type, finding_sites |-> sites,
   roi |-> [GraphicType |-> graphicType, GraphicData |-> graphicData,
            ContentSequence |-> [k \in DOMAIN sops |->
                                   [referenced_sop_instance_uid |-> sops[k]]]]]

ImageRegion == Code("DCM", "111030", "Image Region")
Nodule == <<Code("SCT", "27925004", "Nodule")>>
InLung == <<[ConceptCodeSequence |-> <<Code("SCT", "39607008", "Lung")>>]>>

\* the groups with a bounding box of any shape
PolylineGroups ==
  { BboxGroup(ImageRegion, "POLYLINE", p, <<"img1">>, Nodule, InLung, "A") :
      p \in Polylines }

\* groups of other kinds: a second box on another image, a point, a region
\* of a segmentation, a box without finding site, a box whose image is not
\* in the series, a box without referenced image, a box without finding type
OtherGroups ==
  { BboxGroup(ImageRegion, "POLYLINE",
              [k \in 1..8 |-> Halves(<<2, 2, 5, 2, 5, 6, 2, 6>>[k])],
              <<"img2">>, Nodule, InLung, "B"),
    BboxGroup(ImageRegion, "POINT", <<Halves(3), Halves(4)>>,
              <<"img2">>, Nodule, InLung, "C"),
    BboxGroup(Code("DCM", "121214", "Referenced Segmentation Frame"), "POLYLINE",
              [k \in 1..8 |-> Halves(1)], <<"img2">>, Nodule, InLung, "D"),
    BboxGroup(ImageRegion, "POLYLINE", [k \in 1..8 |-> Halves(1)],
              <<"img2">>, Nodule, <<>>, "E"),
    BboxGroup(ImageRegion, "POLYLINE", [k \in 1..8 |-> Halves(1)],
              <<"img9">>, Nodule, InLung, "F"),
    BboxGroup(ImageRegion, "POLYLINE", [k \in 1..8 |-> Halves(1)],
              <<>>, Nodule, InLung, "G"),
    BboxGroup(ImageRegion, "POLYLINE", [k \in 1..8 |-> Halves(1)],
              <<"img1">>, <<>>, InLung, "H") }

\* largest number of planar ROI measurement groups of a bounding-box report
MaxBboxGroups == 2

\* np.min and np.max of four numbers
Min4(a, b, c, d) == CHOOSE m \in {a, b, c, d} : \A v \in {a, b, c, d} : m <= v
Max4(a, b, c, d) == CHOOSE m \in {a, b, c, d} : \A v \in {a, b, c, d} : m >= v

\* the local variables of the loop that no group has bound yet
NoLocals ==
  [bound |-> {}, referenced_sop_instance_uid |-> "", bbox |-> <<>>,
   width |-> 0, height |-> 0, center_x |-> 0, center_y |-> 0, center_z |-> 0]

Bind(l, var, val) == [l EXCEPT !.bound = @ \cup {var}, ![var] = val]

\* lines 442-449 with the x and y roles exchanged in the centre
BoxOfSwapped(l, bbox) ==
  LET min_x == Min4(bbox[1], bbox[3], bbox[5], bbox[7])
      max_x == Max4(bbox[1], bbox[3], bbox[5], bbox[7])
      min_y == Min4(bbox[2], bbox[4], bbox[6], bbox[8])
      max_y == Max4(bbox[2], bbox[4], bbox[6], bbox[8])
      width == max_x - min_x
      height == max_y - min_y
  IN  Bind(Bind(Bind(Bind(Bind(l, "bbox", bbox), "width", width), "height", height),
                "center_x", min_y + (width \div 2)),
           "center_y", min_x + (height \div 2))

\* lines 439-449: width, height and centre of the box
BoxOf(l, bbox) ==
  LET min_x == Min4(bbox[1], bbox[3], bbox[5], bbox[7])
      max_x == Max4(bbox[1], bbox[3], bbox[5], bbox[7])
      min_y == Min4(bbox[2], bbox[4], bbox[6], bbox[8])
      max_y == Max4(bbox[2], bbox[4], bbox[6], bbox[8])
      width == max_x - min_x
      height == max_y - min_y
  IN  Bind(Bind(Bind(Bind(Bind(l, "bbox", bbox), "width", width), "height", height),
                "center_x", min_x + (width \div 2)),
           "center_y", min_y + (height \div 2))

\* lines 297-322: a row for every info; p['FindingSite'][0] raises IndexError
\* on an info without finding site.  A cell is kept as the value it prints.
createBboxTable(infos) ==
  IF \E k \in DOMAIN infos : Len(infos[k].FindingSite) = 0
  THEN [raised |-> TRUE, table |-> <<>>]
  ELSE [raised |-> FALSE,
        table |-> [k \in DOMAIN infos |->
                     << infos[k].TrackingIdentifier, infos[k].FindingType[3],
                        infos[k].FindingSite[1][3], infos[k].polyline,
                        infos[k].width, infos[k].height,
                        <<infos[k].center_x, infos[k].center_y, infos[k].center_z>> >>]]

\* lines 454-466
PolyInfo(group, l, finding_type, finding_sites) ==
  [TrackingIdentifier |-> group.tracking_identifier,
   TrackingUID |-> group.tracking_uid,
   SOPInstanceUID |-> l.referenced_sop_instance_uid,
   FindingType |-> finding_type,
   FindingSite |-> finding_sites,
   polyline |-> << <<l.bbox[1], l.bbox[2]>>, <<l.bbox[3], l.bbox[4]>>,
                   <<l.bbox[5], l.bbox[6]>>, <<l.bbox[7], l.bbox[8]>> >>,
   width |-> l.width, height |-> l.height,
   center_x |-> 0 - l.center_x, center_y |-> 0 - l.center_y,
   center_z |-> l.center_z]

\* lines 421-425: the finding sites that carry a code
RECURSIVE FindingSites(_, _)
FindingSites(sites, k) ==
  IF k > Len(sites) THEN <<>>
  ELSE (IF Len(sites[k].ConceptCodeSequence) > 0
        THEN << <<sites[k].ConceptCodeSequence[1].CodeValue,
                  sites[k].ConceptCodeSequence[1].CodingSchemeDesignator,
                  sites[k].ConceptCodeSequence[1].CodeMeaning>> >>
        ELSE <<>>) \o FindingSites(sites, k + 1)

\* lines 428-451: what an image region binds; a local read before any group
\* has bound it raises UnboundLocalError, a referenced instance that is not
\* in the series raises ValueError in getIPPFromSOP
RegionLocals(group, l) ==
  LET l1 == IF Len(group.roi.ContentSequence) > 0
            THEN Bind(l, "referenced_sop_instance_uid",
                      group.roi.ContentSequence[1].referenced_sop_instance_uid)
            ELSE l
  IN  IF group.roi.GraphicType = "POLYLINE"
      THEN LET l2 == BoxOf(l1, group.roi.GraphicData)
           IN  IF \/ "referenced_sop_instance_uid" \notin l2.bound
                  \/ l2.referenced_sop_instance_uid \notin DOMAIN SeriesIPP
               THEN [raised |-> TRUE, locals |-> l2]
               ELSE [raised |-> FALSE,
                     locals |-> Bind(l2, "center_z",
                                     SeriesIPP[l2.referenced_sop_instance_uid])]
      ELSE [raised |-> FALSE, locals |-> l1]

\* lines 412-469: one group
ExtractGroup(group, l, infos) ==
  IF group.finding_type = <<>>
  THEN [raised |-> TRUE, locals |-> l, infos |-> infos, table |-> <<>>]
  ELSE LET finding_type == <<group.finding_type[1].CodeValue,
                             group.finding_type[1].CodingSchemeDesignator,
                             group.finding_type[1].CodeMeaning>>
           finding_sites == FindingSites(group.finding_sites, 1)
           r == IF /\ group.reference_type.CodeValue = "111030"
                   /\ group.reference_type.CodingSchemeDesignator = "DCM"
                   /\ group.reference_type.CodeMeaning = "Image Region"
                THEN RegionLocals(group, l)
                ELSE [raised |-> FALSE, locals |-> l]
           allBound == {"referenced_sop_instance_uid", "bbox", "width", "height",
                        "center_x", "center_y", "center_z"} \subseteq r.locals.bound
       IN  IF r.raised \/ ~allBound
           THEN [raised |-> TRUE, locals |-> r.locals, infos |-> infos, table |-> <<>>]
           ELSE LET appended == Append(infos, PolyInfo(group, r.locals, finding_type,
                                                       finding_sites))
                    t == createBboxTable(appended)
                IN  [raised |-> t.raised, locals |-> r.locals, infos |-> appended,
                     table |-> t.table]

BboxInit ==
  /\ bsr \in
       { [evidence |-> ev, groups |-> gs] :
           ev \in {<<>>, <<"series1">>},
           gs \in {<<g>> : g \in PolylineGroups} \cup
                  { hs \in SeqsUpTo(OtherGroups, MaxBboxGroups) :
                      /\ Len(hs) > 0
                      /\ checkUsePlugin(hs) = 0
                      /\ checkIfSRContainsBbox(hs) = 1 } }
  /\ blocals = NoLocals
  /\ poly_infos = <<>>
  /\ tableNode = <<>>
  /\ bi = 0
  /\ bpc = "start"

BboxIdle ==
  /\ bsr = <<>>
  /\ blocals = NoLocals
  /\ poly_infos = <<>>
  /\ tableNode = <<>>
  /\ bi = 0
  /\ bpc = "idle"

\* lines 401-410: the series of the first evidence item
BboxStart ==
  /\ bpc = "start"
  /\ bpc' = IF Len(bsr.evidence) = 0 THEN "raised" ELSE "loop"
  /\ UNCHANGED <<bsr, blocals, poly_infos, tableNode, bi>>
  /\ UNCHANGED notBbox

\* lines 412-469
BboxNext ==
  /\ bpc = "loop"
  /\ bi < Len(bsr.groups)
  /\ LET r == ExtractGroup(bsr.groups[bi + 1], blocals, poly_infos)
     IN  /\ blocals' = r.locals
         /\ poly_infos' = r.infos
         /\ tableNode' = IF r.raised THEN tableNode ELSE r.table
         /\ bpc' = IF r.raised THEN "raised" ELSE "loop"
         /\ bi' = IF r.raised THEN bi ELSE bi + 1
  /\ UNCHANGED bsr
  /\ UNCHANGED notBbox

\* line 471
BboxReturn ==
  /\ bpc = "loop"
  /\ bi = Len(bsr.groups)
  /\ bpc' = "returned"
  /\ UNCHANGED <<bsr, blocals, poly_infos, tableNode, bi>>
  /\ UNCHANGED notBbox

(***************************************************************************)
(* loadAdditionalMeasurements, lines 933-1007, with the line markups it    *)
(* makes: the walk as a whole, then one measurement at a time.  Spacings   *)
(* and positions are whole numbers of some small unit of length.           *)
(***************************************************************************)
\* a measurement group and its items, in document order
GroupTree(groupItems) ==
  << Item(2, <<Code("DCM", "125007", "Measurement Group")>>, NoValue) >>
  \o groupItems

TrackingItems(tid, uid) ==
  << Item(3, <<Code("DCM", "112039", "Tracking Identifier")>>,
          [NoValue EXCEPT !.TextValue = tid]),
     Item(3, <<Code("DCM", "112040", "Tracking Unique Identifier")>>,
          [NoValue EXCEPT !.UID = uid]),
     Item(3, <<Code("SRT", "G-C0E3", "Finding Site")>>,
          [NoValue EXCEPT !.ConceptCodeSequence = <<Code("SRT", "T-62000", "Liver")>>]) >>

LengthOf(graphicData, sop) ==
  << Item(3, <<Code("SRT", "G-D7FE", "Length")>>,
          [NoValue EXCEPT !.ContentSequence = <<LengthItem(graphicData, sop)>>]) >>

\* a group without length, a length along a row of img1, a length along a
\* column of img2
MarkupGroupKinds ==
  { GroupTree(TrackingItems("Tumor0", "1.2.0")),
    GroupTree(TrackingItems("Tumor1", "1.2.1") \o LengthOf(<<0, 0, 10, 0>>, "img1")),
    GroupTree(TrackingItems("Tumor2", "1.2.2") \o LengthOf(<<2, 3, 2, 8>>, "img2")) }

\* largest number of measurement groups of a report with markups
MaxMarkupGroups == 2

\* the reports: with or without observer, the groups in one container
MarkupReports ==
  { [ConceptNameCodeSequence |-> <<Code("DCM", "126000", "Imaging Measurement Report")>>,
     items |-> observer
               \o << Item(1, <<Code("DCM", "126010", "Imaging Measurements")>>, NoValue) >>
               \o Concat(groups)] :
      observer \in { <<>>,
                     << Item(1, <<Code("DCM", "121008", "Person Observer Name")>>,
                             [NoValue EXCEPT !.PersonName = "Reader1"]) >> },
      groups \in SeqsUpTo(MarkupGroupKinds, MaxMarkupGroups) }

\* the geometry of the referenced images
ImageGeometries ==
  { [ImagePositionPatient |-> origin, ImageOrientationPatient |-> orientation,
     PixelSpacing |-> <<rowSpacing, columnSpacing>>] :
      origin \in { <<0, 0, 0>>, <<-100, 50, 7>> },
      orientation \in { <<1, 0, 0, 0, 1, 0>>, <<0, 1, 0, 0, 0, -1>> },
      rowSpacing \in {1, 2, 3}, columnSpacing \in {1, 2, 3} }

\* numpy: a vector times a number, the sum and the product of two vectors
Scaled(v, c) == [k \in DOMAIN v |-> v[k] * c]
Plus(v, w) == [k \in DOMAIN v |-> v[k] + w[k]]
Times(v, w) == [k \in DOMAIN v |-> v[k] * w[k]]

\* lines 996-1005 with the columns scaled by the spacing of the rows
PointOfRowSpacing(reference, col, row) ==
  Times(Plus(Plus(reference.ImagePositionPatient,
                  Scaled(SubSeq(reference.ImageOrientationPatient, 1, 3),
                         col * reference.PixelSpacing[1])),
             Scaled(SubSeq(reference.ImageOrientationPatient, 4, 6),
                    row * reference.PixelSpacing[2])),
        <<-1, -1, 1>>)

\* lines 996-1005: the point at column col and row row of the image, in RAS
PointOf(reference, col, row) ==
  LET origin == reference.ImagePositionPatient
      alongColumnVector == Scaled(SubSeq(reference.ImageOrientationPatient, 1, 3),
                                  reference.PixelSpacing[2])
      alongRowVector == Scaled(SubSeq(reference.ImageOrientationPatient, 4, 6),
                               reference.PixelSpacing[1])
      lpsToRAS == <<-1, -1, 1>>
  IN  Times(Plus(Plus(origin, Scaled(alongColumnVector, col)),
                 Scaled(alongRowVector, row)),
            lpsToRAS)

\* lines 978-990: the new line node, named after the observer
NewLineNode(observer, nodes) ==
  [name |-> observer, locked |-> TRUE, colorIndex |-> 1 + (Len(nodes) + 1),
   points |-> <<>>]

\* lines 974-1007 with the line node created only once the image is found
MarkupOfNodeAfterLookup(contents, measurement, images, nodes) ==
  IF "polyline" \notin measurement.keys
  THEN [raised |-> FALSE, nodes |-> nodes]
  ELSE IF \/ contents.personObserver = <<>>
          \/ "referencedSOPInstanceUID" \notin measurement.keys
          \/ measurement.referencedSOPInstanceUID \notin DOMAIN images
  THEN [raised |-> TRUE, nodes |-> nodes]
  ELSE LET created == Append(nodes, NewLineNode(contents.personObserver[1], nodes))
           reference == images[measurement.referencedSOPInstanceUID]
           p1 == PointOf(reference, measurement.polyline[1], measurement.polyline[2])
           p2 == PointOf(reference, measurement.polyline[3], measurement.polyline[4])
       IN  [raised |-> FALSE,
            nodes |-> [created EXCEPT ![Len(created)].points = <<p1, p2>>]]

\* lines 974-1007 with a missing referenced image skipped like a missing polyline
MarkupOfSkippingMissing(contents, measurement, images, nodes) ==
  IF "polyline" \notin measurement.keys
  THEN [raised |-> FALSE, nodes |-> nodes]
  ELSE IF contents.personObserver = <<>>
  THEN [raised |-> TRUE, nodes |-> Append(nodes, NewLineNode("", nodes))]
  ELSE LET created == Append(nodes, NewLineNode(contents.personObserver[1], nodes))
       IN  IF \/ "referencedSOPInstanceUID" \notin measurement.keys
              \/ measurement.referencedSOPInstanceUID \notin DOMAIN images
           THEN [raised |-> FALSE, nodes |-> created]
           ELSE LET reference == images[measurement.referencedSOPInstanceUID]
                    p1 == PointOf(reference, measurement.polyline[1], measurement.polyline[2])
                    p2 == PointOf(reference, measurement.polyline[3], measurement.polyline[4])
                IN  [raised |-> FALSE,
                     nodes |-> [created EXCEPT ![Len(created)].points = <<p1, p2>>]]

\* lines 974-1007: one measurement on the line nodes of the scene; images
\* gives the geometry of the instances the database has a file for
MarkupOf(contents, measurement, images, nodes) ==
  IF "polyline" \notin measurement.keys
  THEN [raised |-> FALSE, nodes |-> nodes]
  ELSE IF contents.personObserver = <<>>
  THEN [raised |-> TRUE, nodes |-> Append(nodes, NewLineNode("", nodes))]
  ELSE LET created == Append(nodes, NewLineNode(contents.personObserver[1], nodes))
       IN  IF \/ "referencedSOPInstanceUID" \notin measurement.keys
              \/ measurement.referencedSOPInstanceUID \notin DOMAIN images
           THEN [raised |-> TRUE, nodes |-> created]
           ELSE LET reference == images[measurement.referencedSOPInstanceUID]
                    p1 == PointOf(reference, measurement.polyline[1], measurement.polyline[2])
                    p2 == PointOf(reference, measurement.polyline[3], measurement.polyline[4])
                IN  [raised |-> FALSE,
                     nodes |-> [created EXCEPT ![Len(created)].points = <<p1, p2>>]]

MarkupsInit ==
  /\ mreport \in MarkupReports
  /\ \E geometry \in ImageGeometries, found \in SUBSET {"img1", "img2"} :
       mimages = [sop \in found |-> geometry]
  /\ mcontents = [raised |-> FALSE, measurements |-> <<>>, personObserver |-> <<>>]
  /\ mnodes = <<>>
  /\ mk = 0
  /\ mpc = "walk"

MarkupsIdle ==
  /\ mreport = <<>>
  /\ mimages = <<>>
  /\ mcontents = <<>>
  /\ mnodes = <<>>
  /\ mk = 0
  /\ mpc = "idle"

\* lines 939-971
MarkupsWalk ==
  /\ mpc = "walk"
  /\ IF isConceptRaises(mreport) THEN mpc' = "raised" /\ UNCHANGED mcontents
     ELSE IF ~isConcept(mreport, "imagingMeasurementReport")
     THEN mpc' = "returned" /\ UNCHANGED mcontents
     ELSE /\ mcontents' = WalkFrom(mreport.items, 1, mcontents)
          /\ mpc' = IF mcontents'.raised THEN "raised" ELSE "markups"
  /\ UNCHANGED <<mreport, mimages, mnodes, mk>>
  /\ UNCHANGED notMarkups

\* lines 973-1007: one measurement
MarkupsMeasurement ==
  /\ mpc = "markups"
  /\ mk < Len(mcontents.measurements)
  /\ LET r == MarkupOf(mcontents, mcontents.measurements[mk + 1], mimages, mnodes)
     IN  /\ mnodes' = r.nodes
         /\ mpc' = IF r.raised THEN "raised" ELSE "markups"
         /\ mk' = IF r.raised THEN mk ELSE mk + 1
  /\ UNCHANGED <<mreport, mimages, mcontents>>
  /\ UNCHANGED notMarkups

\* the loop of line 973 is exhausted
MarkupsReturn ==
  /\ mpc = "markups"
  /\ mk = Len(mcontents.measurements)
  /\ mpc' = "returned"
  /\ UNCHANGED <<mreport, mimages, mcontents, mnodes, mk>>
  /\ UNCHANGED notMarkups

(***************************************************************************)
(* metadata2vtkTableNode with setupTableInformation and                    *)
(* addMeasurementsToTable, lines 844-892: the columns and the rows of the  *)
(* table of one metadata file                                              *)
(***************************************************************************)
\* the measurement items of the metadata files of the tables
TableItemKinds ==
  { MeasurementItem("Attenuation Coefficient",
                    UnitCode(<<"[", "hnsf'U", "]">>, "Hounsfield unit"), <<"Mean">>, "37.2"),
    MeasurementItem("Volume", UnitCode(<<"mm3">>, "cubic millimeter"), <<>>, "1500") }

\* largest number of measurement items of a measurement of a table
MaxTableItems == 2

\* largest number of measurements of a metadata file of a table
MaxTableRows == 2

TableMeasurements ==
  { [TrackingIdentifier |-> tid, measurementItems |-> items] :
      tid \in {"Tumor1", "Tumor2"},
      items \in SeqsUpTo(TableItemKinds, MaxTableItems) }

\* the metadata files: without 'Measurements', or with a list of measurements
TableFiles ==
  { [keys |-> {"SeriesDescription"}, Measurements |-> <<>>] }
  \cup { [keys |-> {"SeriesDescription", "Measurements"}, Measurements |-> ms] :
           ms \in SeqsUpTo(TableMeasurements, MaxTableRows) }

\* lines 895-912
generateMeasurementInformation(items) == [k \in DOMAIN items |-> InfoOf(items[k])]

\* lines 919-923: the names from position i down to the first
RECURSIVE EnumerateFrom(_, _, _, _)
EnumerateFrom(ns, nameList, cnt, i) ==
  IF i = 0 THEN nameList
  ELSE IF ns[i] \in DOMAIN cnt /\ cnt[ns[i]] # 0
       THEN EnumerateFrom(ns, [nameList EXCEPT ![i] = Numbered(@, cnt[ns[i]])],
                          [cnt EXCEPT ![ns[i]] = @ - 1], i - 1)
       ELSE EnumerateFrom(ns, nameList, cnt, i - 1)

\* lines 914-927
enumerateDuplicateNames(items) ==
  LET ns == [k \in DOMAIN items |-> items[k].name]
      nameList == EnumerateFrom(ns, ns, Counter(ns), Len(ns))
  IN  [k \in DOMAIN items |-> [items[k] EXCEPT !.name = nameList[k]]]

\* lines 881-892: the names of the columns, in order
setupTableInformation(measurement) ==
  LET infos == enumerateDuplicateNames(
                 generateMeasurementInformation(measurement.measurementItems))
  IN  <<"Tracking Identifier">> \o [k \in DOMAIN infos |-> infos[k].name]

\* table.AddEmptyRow(): an empty cell for every column
EmptyRow(columns) == [c \in DOMAIN columns |-> ""]

\* table.SetCellText(rowIndex, columnIndex, text) with columnIndex counted
\* from 0: a column the table does not have is refused, the row is unchanged
SetCellText(row, columnIndex, text) ==
  IF columnIndex + 1 \in DOMAIN row THEN [row EXCEPT ![columnIndex + 1] = text]
  ELSE row

\* line 871 for the items from the k-th on
RECURSIVE SetValuesFrom(_, _, _)
SetValuesFrom(row, items, k) ==
  IF k > Len(items) THEN row
  ELSE SetValuesFrom(SetCellText(row, (k - 1) + 1, items[k].value), items, k + 1)

\* lines 866-871: the row of one measurement
RowOf(measurement, columns) ==
  SetValuesFrom(SetCellText(EmptyRow(columns), 0, measurement.TrackingIdentifier),
                measurement.measurementItems, 1)

TableInit ==
  /\ tdata \in TableFiles
  /\ tcolumns = <<>>
  /\ trows = <<>>
  /\ tk = 0
  /\ tpc = "open"

TableIdle ==
  /\ tdata = <<>>
  /\ tcolumns = <<>>
  /\ trows = <<>>
  /\ tk = 0
  /\ tpc = "idle"

\* lines 845-858: None without 'Measurements', IndexError on an empty list,
\* else the columns of the first measurement
TableSetup ==
  /\ tpc = "open"
  /\ IF "Measurements" \notin tdata.keys
     THEN tpc' = "none" /\ UNCHANGED tcolumns
     ELSE IF Len(tdata.Measurements) = 0
     THEN tpc' = "raised" /\ UNCHANGED tcolumns
     ELSE /\ tcolumns' = setupTableInformation(tdata.Measurements[1])
          /\ tpc' = "rows"
  /\ UNCHANGED <<tdata, trows, tk>>
  /\ UNCHANGED notTable

\* lines 866-871: the next measurement
TableRow ==
  /\ tpc = "rows"
  /\ tk < Len(tdata.Measurements)
  /\ trows' = Append(trows, RowOf(tdata.Measurements[tk + 1], tcolumns))
  /\ tk' = tk + 1
  /\ UNCHANGED <<tdata, tcolumns, tpc>>
  /\ UNCHANGED notTable

\* lines 860-864
TableReturn ==
  /\ tpc = "rows"
  /\ tk = Len(tdata.Measurements)
  /\ tpc' = "returned"
  /\ UNCHANGED <<tdata, tcolumns, trows, tk>>
  /\ UNCHANGED notTable

(***************************************************************************)
(* Specifications: one per component, the other components idle            *)
(***************************************************************************)
NextWalk == WalkStart \/ WalkItem \/ WalkEnd

InitWalk == WalkInit /\ ConceptIdle /\ RefsIdle /\ ExamineIdle /\ SortIdle /\ LoadIdle /\ EnumIdle /\ InfoIdle /\ BboxIdle /\ MarkupsIdle /\ TableIdle

SpecWalk == InitWalk /\ [][NextWalk]_vars

NextConcept == DecideFirst \/ DecideSecond

InitConcept == ConceptInit /\ WalkIdle /\ RefsIdle /\ ExamineIdle /\ SortIdle /\ LoadIdle /\ EnumIdle /\ InfoIdle /\ BboxIdle /\ MarkupsIdle /\ TableIdle

SpecConcept == InitConcept /\ [][NextConcept]_vars

NextRefs == RefsDataset \/ RefsReturn

InitRefs == RefsInit /\ WalkIdle /\ ConceptIdle /\ ExamineIdle /\ SortIdle /\ LoadIdle /\ EnumIdle /\ InfoIdle /\ BboxIdle /\ MarkupsIdle /\ TableIdle

SpecRefs == InitRefs /\ [][NextRefs]_vars

NextExamine == ExamineFile \/ ExamineReturn

InitExamine == ExamineInit /\ WalkIdle /\ ConceptIdle /\ RefsIdle /\ SortIdle /\ LoadIdle /\ EnumIdle /\ InfoIdle /\ BboxIdle /\ MarkupsIdle /\ TableIdle

SpecExamine == InitExamine /\ [][NextExamine]_vars

NextSort == SortKeys \/ SortCompare

InitSort == SortInit /\ WalkIdle /\ ConceptIdle /\ RefsIdle /\ ExamineIdle /\ LoadIdle /\ EnumIdle /\ InfoIdle /\ BboxIdle /\ MarkupsIdle /\ TableIdle

SpecSort == InitSort /\ [][NextSort]_vars

NextLoad == LoadSort \/ LoadReportPlugin \/ LoadReportHighdicom \/ LoadReturn

InitLoad == LoadInit /\ WalkIdle /\ ConceptIdle /\ RefsIdle /\ ExamineIdle /\ SortIdle /\ EnumIdle /\ InfoIdle /\ BboxIdle /\ MarkupsIdle /\ TableIdle

SpecLoad == InitLoad /\ [][NextLoad]_vars

NextEnum == EnumStart \/ EnumName \/ EnumReturn

InitEnum == EnumInit /\ WalkIdle /\ ConceptIdle /\ RefsIdle /\ ExamineIdle /\ SortIdle /\ LoadIdle /\ InfoIdle /\ BboxIdle /\ MarkupsIdle /\ TableIdle

SpecEnum == InitEnum /\ [][NextEnum]_vars

NextInfo == InfoNext \/ InfoReturn

InitInfo == InfoInit /\ WalkIdle /\ ConceptIdle /\ RefsIdle /\ ExamineIdle /\ LoadIdle /\ EnumIdle /\ SortIdle /\ BboxIdle /\ MarkupsIdle /\ TableIdle

SpecInfo == InitInfo /\ [][NextInfo]_vars

NextBbox == BboxStart \/ BboxNext \/ BboxReturn

InitBbox == BboxInit /\ InfoIdle /\ WalkIdle /\ ConceptIdle /\ RefsIdle /\ ExamineIdle /\ LoadIdle /\ EnumIdle /\ SortIdle /\ MarkupsIdle /\ TableIdle

SpecBbox == InitBbox /\ [][NextBbox]_vars

NextMarkups == MarkupsWalk \/ MarkupsMeasurement \/ MarkupsReturn

InitMarkups == MarkupsInit /\ BboxIdle /\ InfoIdle /\ WalkIdle /\ ConceptIdle /\ RefsIdle /\ ExamineIdle /\ LoadIdle /\ EnumIdle /\ SortIdle /\ TableIdle

SpecMarkups == InitMarkups /\ [][NextMarkups]_vars

NextTable == TableSetup \/ TableRow \/ TableReturn

InitTable == TableInit /\ MarkupsIdle /\ BboxIdle /\ InfoIdle /\ WalkIdle /\ ConceptIdle /\ RefsIdle /\ ExamineIdle /\ LoadIdle /\ EnumIdle /\ SortIdle

SpecTable == InitTable /\ [][NextTable]_vars

\* ---- end of specifications ----

(***************************************************************************)
(* Claims on the walk                                                      *)
(***************************************************************************)
\* the item's concept name is the code (scheme, value)
Named(item, scheme, value) ==
  /\ item.ConceptNameCodeSequence # <<>>
  /\ item.ConceptNameCodeSequence[1].CodingSchemeDesignator = scheme
  /\ item.ConceptNameCodeSequence[1].CodeValue = value

\* the top-level item that contains item j of depth 2
ContainerOf(items, j) ==
  CHOOSE i \in 1..j : items[i].depth = 1 /\ \A k \in (i + 1)..j : items[k].depth > 1

\* the 'measurement group' items that lie directly under an 'imaging
\* measurements' container among the first n items, in document order
RECURSIVE GroupNodes(_, _)
GroupNodes(items, n) ==
  IF n = 0 THEN <<>>
  ELSE IF /\ items[n].depth = 2
          /\ Named(items[n], "DCM", "125007")
          /\ Named(items[ContainerOf(items, n)], "DCM", "126010")
       THEN Append(GroupNodes(items, n - 1), n)
       ELSE GroupNodes(items, n - 1)

\* the tracking identifiers found directly under item j
TrackingIdsUnder(items, j) ==
  { items[k].value.TextValue :
      k \in { c \in Range(ContentSequence(items, j)) : Named(items[c], "DCM", "112039") } }

\* record r is the record of group node j: it carries the node's tracking
\* identifier exactly when the node has one
RecordOf(items, r, j) ==
  /\ ("trackingIdentifier" \in r.keys) = (TrackingIdsUnder(items, j) # {})
  /\ "trackingIdentifier" \in r.keys => r.trackingIdentifier \in TrackingIdsUnder(items, j)
  /\ ("polyline" \in r.keys) =
       (\E c \in Range(ContentSequence(items, j)) : Named(items[c], "SRT", "G-D7FE"))

\* C1: in every state of the walk of a report whose root is the 'imaging
\* measurement report' concept, the measurement records are, one for one and
\* in document order, the 'measurement group' nodes under 'imaging
\* measurements' containers that the walk has passed; once the walk is done
\* they are all such nodes of the document, and no other node has a record.
C1_OneRecordPerGroupInOrder ==
  wpc \in {"walking", "done", "raised"} =>
    LET groups == GroupNodes(sr.items, Len(sr.items))
    IN  /\ Len(measurements) <= Len(groups)
        /\ \A k \in 1..Len(measurements) : RecordOf(sr.items, measurements[k], groups[k])
        /\ wpc = "done" => Len(measurements) = Len(groups)

\* a finished walk over two groups that gave two different records
C1_Witness ==
  /\ wpc = "done"
  /\ Len(measurements) = 2
  /\ measurements[1] # measurements[2]
  /\ Len(sr.items) > 3

\* C4: an item without a concept-name code makes isConcept answer false
\* instead of raising, so the walk of a tree that holds such an item still
\* reaches its end: it never stops on an exception.
C4_AbsentConceptNameIsNotAnError ==
  Named(sr, "DCM", "126000") => wpc # "raised"


(***************************************************************************)
(* Claims on the concept decisions                                         *)
(***************************************************************************)
\* C3: two reports that differ only in code meaning strings get the same
\* decisions from isConcept, checkUsePlugin and checkIfSRContainsBbox, hence
\* the same reader path and the same point / bounding-box branch.
C3_DecisionsIgnoreCodeMeaning ==
  (cres # <<>> /\ cres2 # <<>>) => cres = cres2

(***************************************************************************)
(* Claims on the reference resolver                                        *)
(***************************************************************************)

\* every (series, SOP) reference of the evidence of a report, in document order
AllRefs(dataset) ==
  IF "CurrentRequestedProcedureEvidenceSequence" \in dataset.absent THEN <<>>
  ELSE LET ev == dataset.CurrentRequestedProcedureEvidenceSequence
           OfSeries(x) == [k \in DOMAIN x.ReferencedSOPSequence |->
                             [series |-> x.SeriesInstanceUID,
                              cls |-> x.ReferencedSOPSequence[k].ReferencedSOPClassUID,
                              sop |-> x.ReferencedSOPSequence[k].ReferencedSOPInstanceUID]]
           OfStudy(y) == Concat([k \in DOMAIN y.ReferencedSeriesSequence |->
                                   OfSeries(y.ReferencedSeriesSequence[k])])
       IN  Concat([k \in DOMAIN ev |-> OfStudy(ev[k])])

IsSegRef(r) == r.cls = "1.2.840.10008.5.1.4.1.1.66.4"
IsRWVMRef(r) == r.cls = "1.2.840.10008.5.1.4.1.1.67"
IsOtherRef(r) == ~IsSegRef(r) /\ ~IsRWVMRef(r)

SeriesOfRefs(refs) == [k \in DOMAIN refs |-> refs[k].series]
SopsOfRefs(refs) == [k \in DOMAIN refs |-> refs[k].sop]

\* C5: once createLoadableAndAddReferences is done, the Segmentation
\* references of every report are, as series UIDs, under the report's own
\* instance UID in ReferencedSegmentationInstanceUIDs, the RWVM references
\* are, as series UIDs, in ReferencedRWVMSeriesInstanceUIDs, the references
\* of any other class are in ReferencedOtherInstanceUIDs, and nothing else is
\* in a bucket: no Segmentation or RWVM reference is among the 'other' ones.
C5_ReferencesClassifiedByClass ==
  rpc = "done" =>
    /\ \A k \in DOMAIN datasets :
         loadable.ReferencedSegmentationInstanceUIDs.map[datasets[k].SOPInstanceUID]
           = SeriesOfRefs(SelectSeq(AllRefs(datasets[k]), IsSegRef))
    /\ loadable.ReferencedRWVMSeriesInstanceUIDs
         = Concat([k \in DOMAIN datasets |->
                     SeriesOfRefs(SelectSeq(AllRefs(datasets[k]), IsRWVMRef))])
    /\ loadable.ReferencedOtherInstanceUIDs
         = Concat([k \in DOMAIN datasets |->
                     SopsOfRefs(SelectSeq(AllRefs(datasets[k]), IsOtherRef))])
    /\ \A k \in DOMAIN datasets : \A r \in Range(AllRefs(datasets[k])) :
         ~IsOtherRef(r) => r.sop \notin Range(loadable.ReferencedOtherInstanceUIDs)

\* two reports done, the first with a Segmentation reference, and references
\* of the other two kinds as well
C5_Witness ==
  /\ rpc = "done"
  /\ Len(datasets) = 2
  /\ loadable.ReferencedSegmentationInstanceUIDs.map[datasets[1].SOPInstanceUID] # <<>>
  /\ loadable.ReferencedRWVMSeriesInstanceUIDs # <<>>
  /\ loadable.ReferencedOtherInstanceUIDs # <<>>

\* the instances referenced by the segmentation loadables of the
\* segmentation series that one report references
SegReferencedBy(dataset) ==
  UNION { UNION { Range(sl.referencedInstanceUIDs) : sl \in Range(SegExamine(r.series)) }
          : r \in {x \in Range(AllRefs(dataset)) : IsSegRef(x)} }

\* C6: once createLoadableAndAddReferences is done, referencedInstanceUIDs
\* holds no UID twice and holds exactly the instances referenced by the
\* segmentation loadables of the segmentation series of all the reports.
C6_ReferencedInstancesAreTheUnion ==
  rpc = "done" =>
    /\ \A i, j \in DOMAIN loadable.referencedInstanceUIDs :
         loadable.referencedInstanceUIDs[i] = loadable.referencedInstanceUIDs[j] => i = j
    /\ Range(loadable.referencedInstanceUIDs)
         = UNION { SegReferencedBy(datasets[k]) : k \in DOMAIN datasets }

\* two reports whose segmentations share an instance, the first also
\* referencing an instance that the last does not
C6_Witness ==
  /\ rpc = "done"
  /\ Len(datasets) = 2
  /\ SegReferencedBy(datasets[1]) \cap SegReferencedBy(datasets[2]) # {}
  /\ SegReferencedBy(datasets[1]) \ SegReferencedBy(datasets[2]) # {}

(***************************************************************************)
(* Claims on the recognition of TID1500 reports                            *)
(***************************************************************************)
\* the dataset is an SR of an accepted storage class whose first content
\* template item names template 1500
IsTID1500(d) ==
  /\ "Modality" \notin d.absent /\ d.Modality = "SR"
  /\ "SOPClassUID" \notin d.absent
  /\ d.SOPClassUID \in {"1.2.840.10008.5.1.4.1.1.88.22", "1.2.840.10008.5.1.4.1.1.88.33",
                        "1.2.840.10008.5.1.4.1.1.88.34"}
  /\ "ContentTemplateSequence" \notin d.absent
  /\ Len(d.ContentTemplateSequence) > 0
  /\ "TemplateIdentifier" \notin d.ContentTemplateSequence[1].absent
  /\ d.ContentTemplateSequence[1].TemplateIdentifier = "1500"

\* what a step of examineFiles that called isDICOMTID1500 has done
RecognitionStep ==
  (xn' = xn + 1 /\ xres' # <<>>) =>
    /\ ~xres'[1].raised
    /\ xres'[1].value = IsTID1500(xds'[1])
    /\ ~xres'[1].value => (xpc' = "loop" /\ loadables' = loadables)

\* C2: isDICOMTID1500 answers true exactly for a dataset of modality SR, of
\* one of the three accepted SR storage classes and with template identifier
\* 1500 in its first content template item; on every other dataset, one with
\* a missing or empty ContentTemplateSequence included, it answers false and
\* does not raise, and examineFiles then stays in its loop with the
\* loadables it had and goes on to the next file.
C2_RecognitionNeverRaises == [][RecognitionStep]_vars

\* a second file was reached after an SR of an accepted class without any
\* content template item was answered false
C2_Witness ==
  /\ xpc = "loop"
  /\ xn = 1
  /\ xfiles = 2
  /\ xres # <<>> /\ ~xres[1].value /\ ~xres[1].raised
  /\ xds[1].Modality = "SR" /\ "Modality" \notin xds[1].absent
  /\ xds[1].SOPClassUID = "1.2.840.10008.5.1.4.1.1.88.22"
  /\ "SOPClassUID" \notin xds[1].absent
  /\ (xds[1].ContentTemplateSequence = <<>> \/ "ContentTemplateSequence" \in xds[1].absent)

(***************************************************************************)
(* Claims on the ordering of the reports                                   *)
(***************************************************************************)
\* the key of the report with the given UID
KeyOf(uid) == skeys[CHOOSE k \in DOMAIN suids : suids[k] = uid]

\* C7: sortReportsByDateTime completes for any mix of valid and unparseable
\* timestamps and returns a permutation of the UIDs in which every report
\* with the sentinel key comes before every report with a valid timestamp
\* and the reports with valid timestamps are in ascending order.
C7_SentinelsFirstThenAscending ==
  spc \in {"sorted", "raised"} =>
    /\ spc = "sorted"
    /\ Len(sorted) = Len(suids)
    /\ Range(sorted) = Range(suids)
    /\ \A i, j \in DOMAIN sorted :
         i < j => /\ KeyOf(sorted[j]).valid \/ ~KeyOf(sorted[i]).valid
                  /\ ~KeyLess(KeyOf(sorted[j]), KeyOf(sorted[i]))

\* a DICOM date of 8 digits and a DICOM time of 6 digits, read field by field
WellFormed(date, time) ==
  /\ Len(date) = 8 /\ Len(time) = 6
  /\ \A i \in 1..8 : IsDigit(date[i])
  /\ \A i \in 1..6 : IsDigit(time[i])

TimestampOf(date, time) ==
  << 1000 * date[1] + 100 * date[2] + 10 * date[3] + date[4],
     10 * date[5] + date[6], 10 * date[7] + date[8],
     10 * time[1] + time[2], 10 * time[3] + time[4], 10 * time[5] + time[6] >>

\* C8: the key of a report is made of its series date and series time when it
\* has both, and otherwise of its study date and study time: a report with
\* only a well-formed study date and study time gets that timestamp, not the
\* sentinel.
C8_StudyDateTimeFallback ==
  spc # "keys" =>
    \A k \in DOMAIN suids :
      LET d == sdb[suids[k]]
          series == "SeriesDate" \notin d.absent /\ "SeriesTime" \notin d.absent
          study == "StudyDate" \notin d.absent /\ "StudyTime" \notin d.absent
      IN  /\ (series /\ WellFormed(d.SeriesDate, d.SeriesTime)) =>
               skeys[k] = [valid |-> TRUE, t |-> TimestampOf(d.SeriesDate, d.SeriesTime)]
          /\ (~series /\ study /\ WellFormed(d.StudyDate, d.StudyTime)) =>
               skeys[k] = [valid |-> TRUE, t |-> TimestampOf(d.StudyDate, d.StudyTime)]

(***************************************************************************)
(* Claims on load                                                          *)
(***************************************************************************)
\* the table nodes read from report uid
TablesOf(uid) == {n \in DOMAIN tableNodes : tableNodes[n].report = uid}

\* C9: once load has gone through all the sorted reports, every report after
\* the first has a table whose PriorReportUID is the UID of the report before
\* it, and that report has a table whose FollowUpReportUID is the UID of the
\* report after it, whatever the path each report took and whether or not
\* the scene has a segmentation node.
C9_AdjacentReportsAreLinked ==
  (lpc = "returned" /\ idx = Len(sortedUIDs)) =>
    \A i \in 2..Len(sortedUIDs) :
      /\ \E n \in TablesOf(sortedUIDs[i]) :
           tableNodes[n].PriorReportUID = sortedUIDs[i - 1]
      /\ \E n \in TablesOf(sortedUIDs[i - 1]) :
           tableNodes[n].FollowUpReportUID = sortedUIDs[i]

(***************************************************************************)
(* Claims on the enumeration of duplicate names                            *)
(***************************************************************************)
\* how often the name n was given
Occurrences(n) == Cardinality({j \in DOMAIN names : names[j] = n})

\* how many of the first k names given are names[k]
OccurrencesUpTo(k) == Cardinality({j \in 1..k : names[j] = names[k]})

\* the counters as they are appended to a name
CounterTexts == <<" (1)", " (2)", " (3)", " (4)", " (5)", " (6)">>

C11_NamesArePairwiseDistinct ==
  epc = "returned" =>
    \A j, k \in DOMAIN infoItems :
      j # k => infoItems[j].name # infoItems[k].name

(***************************************************************************)
(* Claims on the column information                                        *)
(***************************************************************************)
\* the derivation modifier's meaning when the item has one, else the quantity's
DescriptionOf(item) ==
  IF "derivationModifier" \in item.keys THEN item.derivationModifier.CodeMeaning
  ELSE item.quantity.CodeMeaning

\* the code values of the units of the model, read without their brackets
UnitValueText(units) ==
  IF units.CodeMeaning = "Hounsfield unit" THEN "hnsf'U"
  ELSE IF units.CodeMeaning = "cubic millimeter" THEN "mm3"
  ELSE "mm"

\* C12: generateMeasurementInformation names the column of each measurement
\* item '<description> [<unit>]', the description being the derivation
\* modifier's meaning when there is one and the quantity's meaning otherwise,
\* and the unit being the code value of the unit without square brackets;
\* the infos come in the order of the items, one for each.
C12_ColumnNameIsDescriptionAndUnitValue ==
  /\ Len(crntInfos) <= Len(measurementItems)
  /\ gpc = "returned" => Len(crntInfos) = Len(measurementItems)
  /\ \A k \in DOMAIN crntInfos :
       /\ crntInfos[k].description = DescriptionOf(measurementItems[k])
       /\ crntInfos[k].name =
            DescriptionOf(measurementItems[k]) \o " [" \o
            UnitValueText(measurementItems[k].units) \o "]"

\* items with and without a derivation modifier have been named
C12_Witness ==
  /\ gpc = "returned"
  /\ Len(crntInfos) >= 2
  /\ \E j, k \in DOMAIN measurementItems :
       /\ "derivationModifier" \in measurementItems[j].keys
       /\ "derivationModifier" \notin measurementItems[k].keys
       /\ crntInfos[j].name = "Mean [hnsf'U]"
       /\ crntInfos[k].name = "Volume [mm3]"

\* C12 as stated: the unit in the brackets is the meaning of the unit code
C12_ColumnNameIsDescriptionAndUnitMeaning ==
  gpc = "returned" =>
    /\ Len(crntInfos) = Len(measurementItems)
    /\ \A k \in DOMAIN crntInfos :
         crntInfos[k].name =
           DescriptionOf(measurementItems[k]) \o " [" \o
           measurementItems[k].units.CodeMeaning \o "]"

(***************************************************************************)
(* Claims on the bounding boxes                                            *)
(***************************************************************************)
\* the x (c = 1) or y (c = 2) coordinates of the four points of an info
Along(info, c) == {info.polyline[j][c] : j \in 1..4}

\* size is the extent of the values vs and minus negated lies within them
SpansAndCentres(vs, size, negated) ==
  \E lo, hi \in vs :
    /\ \A v \in vs : lo <= v /\ v <= hi
    /\ size = hi - lo
    /\ size >= 0
    /\ lo <= 0 - negated /\ 0 - negated <= hi

\* C13: every record of poly_infos has width = max_x - min_x >= 0 and
\* height = max_y - min_y >= 0 over the four points of its polyline, its
\* centre before the negation lies between the least and the greatest
\* coordinate on each axis, and when the four points coincide width and
\* height are 0 and the centre is that point.
C13_BoxSizeAndCentre ==
  \A k \in DOMAIN poly_infos :
    /\ SpansAndCentres(Along(poly_infos[k], 1), poly_infos[k].width,
                       poly_infos[k].center_x)
    /\ SpansAndCentres(Along(poly_infos[k], 2), poly_infos[k].height,
                       poly_infos[k].center_y)
    /\ (Cardinality(Along(poly_infos[k], 1)) = 1 /\
        Cardinality(Along(poly_infos[k], 2)) = 1) =>
         /\ poly_infos[k].width = 0 /\ poly_infos[k].height = 0
         /\ 0 - poly_infos[k].center_x = poly_infos[k].polyline[1][1]
         /\ 0 - poly_infos[k].center_y = poly_infos[k].polyline[1][2]

\* a box from x = -1 to x = 2, three pixels wide, centred on x = 1/2, and of
\* no height has been extracted
C13_Witness ==
  /\ bpc = "returned"
  /\ Len(poly_infos) = 1
  /\ Along(poly_infos[1], 1) = {Halves(-1), Halves(0), Halves(2)}
  /\ Along(poly_infos[1], 2) = {Halves(2)}
  /\ poly_infos[1].width = Halves(3)
  /\ poly_infos[1].height = 0
  /\ poly_infos[1].center_x = -1

(***************************************************************************)
(* Claims on the line markups                                              *)
(***************************************************************************)
\* the measurements that carry a polyline, among the first j
PolylinesUpTo(j) ==
  {i \in 1..j : "polyline" \in mcontents.measurements[i].keys}

\* measurement j is a length from (0, 0) to column 10 of row 0 whose image
\* is found and lies along the patient axes, and it has been taken
IsRulerAlongRow(j) ==
  /\ j \in 1..mk
  /\ "polyline" \in mcontents.measurements[j].keys
  /\ mcontents.measurements[j].polyline = <<0, 0, 10, 0>>
  /\ mcontents.measurements[j].referencedSOPInstanceUID \in DOMAIN mimages
  /\ mimages[mcontents.measurements[j].referencedSOPInstanceUID]
       .ImageOrientationPatient = <<1, 0, 0, 0, 1, 0>>

\* the two points of the node of measurement j differ, before the sign flip,
\* by dx along x and by nothing along y and z
DifferAlongX(j, dx) ==
  LET points == mnodes[Cardinality(PolylinesUpTo(j))].points
  IN  /\ Len(points) = 2
      /\ (0 - points[2][1]) - (0 - points[1][1]) = dx
      /\ (0 - points[2][2]) - (0 - points[1][2]) = 0
      /\ points[2][3] - points[1][3] = 0

\* C14: for a length with polyline [0,0,10,0] on an image with orientation
\* (1,0,0, 0,1,0), the two points differ before the sign flip only in x, by
\* 10 times the spacing of the columns (the second value of PixelSpacing),
\* whatever the two spacings are.
C14_RulerSpansTenColumnSpacings ==
  \A j \in DOMAIN mcontents.measurements :
    IsRulerAlongRow(j) =>
      DifferAlongX(j, 10 * mimages[mcontents.measurements[j].referencedSOPInstanceUID]
                             .PixelSpacing[2])

\* such a ruler has been made on an image whose rows are 1 apart and whose
\* columns are 3 apart
C14_Witness ==
  /\ mpc = "returned"
  /\ \E j \in DOMAIN mcontents.measurements :
       /\ IsRulerAlongRow(j)
       /\ mimages["img1"].PixelSpacing = <<1, 3>>
       /\ DifferAlongX(j, 30)

\* C14 as stated: the two points differ by 10 times the spacing of the rows
C14_RulerSpansTenRowSpacings ==
  \A j \in DOMAIN mcontents.measurements :
    IsRulerAlongRow(j) =>
      DifferAlongX(j, 10 * mimages[mcontents.measurements[j].referencedSOPInstanceUID]
                             .PixelSpacing[1])

(***************************************************************************)
(* Claims on the batch                                                     *)
(***************************************************************************)
\* C15: a report that fails (no file, no tid1500reader, tid1500reader not
\* completed) does not end the batch: when load returns, no report after the
\* one it took last is left untaken.
C15_FailedReportDoesNotEndBatch ==
  lpc = "returned" => idx + 1 >= Len(sortedUIDs)

\* load has raised at line 770, where the report before the one being taken
\* gets its FollowUpReportUID: the new table has its PriorReportUID and not
\* yet its SOPInstanceUID
RaisedTyingToPrevious ==
  /\ lpc = "raised"
  /\ idx >= 1
  /\ Len(tableNodes) > 0
  /\ tableNodes[Len(tableNodes)].kind = "measurements"
  /\ tableNodes[Len(tableNodes)].PriorReportUID = sortedUIDs[idx]
  /\ tableNodes[Len(tableNodes)].SOPInstanceUID = ""

\* C16: a metadata file without 'Measurements' gives None and no table node,
\* and load goes on with the reports after it without raising: it never
\* raises while tying a report to a previous one that gave None.
C16_MissingMeasurementsAreSkipped ==
  /\ lpc \in {"loop", "returned"} =>
       Cardinality({n \in DOMAIN tableNodes : tableNodes[n].kind = "measurements"})
         = Cardinality({k \in DOMAIN tables : tables[k] # None})
  /\ ~(RaisedTyingToPrevious /\ idx <= Len(tables) /\ tables[idx] = None)

(***************************************************************************)
(* Claims on the line markups                                              *)
(***************************************************************************)

\* the measurement taken next is a length whose observer is known (line 979
\* passes) and whose referenced image the database has no file for (line 992)
NextImageIsNotFound ==
  /\ mpc = "markups"
  /\ mk < Len(mcontents.measurements)
  /\ "polyline" \in mcontents.measurements[mk + 1].keys
  /\ mcontents.personObserver # <<>>
  /\ "referencedSOPInstanceUID" \in mcontents.measurements[mk + 1].keys
  /\ mcontents.measurements[mk + 1].referencedSOPInstanceUID \notin DOMAIN mimages

\* C17: when the referenced image of a length measurement is not found, the
\* step raises, the line node created for the measurement is in the scene
\* without control points, the nodes before it are untouched, and nothing is
\* processed after the exception.
C17_MissingImageRaisesAndKeepsNode ==
  [][/\ NextImageIsNotFound =>
          /\ mpc' = "raised"
          /\ mk' = mk
          /\ Len(mnodes') = Len(mnodes) + 1
          /\ mnodes'[Len(mnodes')].points = <<>>
          /\ SubSeq(mnodes', 1, Len(mnodes)) = mnodes
     /\ mpc = "raised" => UNCHANGED <<mpc, mk, mnodes>>]_vars

\* a missing image has ended the function at the second length measurement,
\* after the first one got its two points
C17_Witness ==
  /\ mpc = "raised"
  /\ mk = 1
  /\ Len(mnodes) = 2
  /\ Len(mnodes[1].points) = 2
  /\ mnodes[2].points = <<>>
  /\ mcontents.personObserver # <<>>
  /\ mcontents.measurements[2].referencedSOPInstanceUID \notin DOMAIN mimages

\* the measurement groups of the report under load, by position in the tree
GroupsOfReport == {i \in DOMAIN mreport.items : mreport.items[i].depth = 2}

\* the records with a polyline among the first k
PolylineRecords(k) ==
  {j \in 1..k : "polyline" \in mcontents.measurements[j].keys}

\* every group has its record, and a record without polyline carries the
\* tracking identifier, the tracking UID and the finding site of its group
GroupsAreKept ==
  /\ Len(mcontents.measurements) = Cardinality(GroupsOfReport)
  /\ \A j \in DOMAIN mcontents.measurements :
       "polyline" \notin mcontents.measurements[j].keys =>
         /\ mcontents.measurements[j].keys =
              {"trackingIdentifier", "trackingUniqueIdentifier", "findingSite"}
         /\ mcontents.measurements[j].trackingIdentifier = "Tumor0"
         /\ mcontents.measurements[j].trackingUniqueIdentifier = "1.2.0"
         /\ mcontents.measurements[j].findingSite = "Liver"

\* C19: a group without polyline is kept as a record with its tracking
\* identifier, tracking UID and finding site and gets no line node; the line
\* nodes are those of the polyline groups taken so far, the one at which the
\* function raised included, and all but that one have their two points.
C19_LineNodesOfGroupsTaken ==
  mpc \in {"markups", "raised", "returned"} =>
    /\ GroupsAreKept
    /\ Len(mnodes) = Cardinality(PolylineRecords(mk))
                       + (IF mpc = "raised" THEN 1 ELSE 0)
    /\ \A n \in DOMAIN mnodes :
         Len(mnodes[n].points) = IF mpc = "raised" /\ n = Len(mnodes) THEN 0 ELSE 2
    /\ mpc = "returned" => mk = Len(mcontents.measurements)

\* the function raised at a length whose image is missing, after a group
\* without polyline: one record without polyline, one line node
C19_Witness ==
  /\ mpc = "raised"
  /\ mk = 1
  /\ Len(mcontents.measurements) = 2
  /\ "polyline" \notin mcontents.measurements[1].keys
  /\ "polyline" \in mcontents.measurements[2].keys
  /\ mcontents.personObserver # <<>>
  /\ mcontents.measurements[2].referencedSOPInstanceUID \notin DOMAIN mimages
  /\ Len(mnodes) = 1

\* C19 as stated: once the function has ended there are as many line nodes as
\* groups with a polyline whose referenced image is found.
C19_LineNodesOfFoundImages ==
  mpc \in {"raised", "returned"} =>
    /\ GroupsAreKept
    /\ Len(mnodes) =
         Cardinality({j \in PolylineRecords(Len(mcontents.measurements)) :
                        mcontents.measurements[j].referencedSOPInstanceUID
                          \in DOMAIN mimages})

(***************************************************************************)
(* Claims on the warnings of createLoadableAndAddReferences                *)
(***************************************************************************)

\* the series of a report's evidence with an instance of the given SOP class
SeriesOfClass(dataset, sopClass) ==
  IF ~hasattr(dataset, "CurrentRequestedProcedureEvidenceSequence") THEN {}
  ELSE { series.SeriesInstanceUID :
           series \in UNION { Range(study.ReferencedSeriesSequence) :
                                study \in Range(dataset.CurrentRequestedProcedureEvidenceSequence) } }
       \cap
       { series.SeriesInstanceUID :
           series \in { x \in UNION { Range(study.ReferencedSeriesSequence) :
                                        study \in Range(dataset.CurrentRequestedProcedureEvidenceSequence) } :
                          \E r \in Range(x.ReferencedSOPSequence) :
                            r.ReferencedSOPClassUID = sopClass } }

\* line 138 for every report: the SEG warning is there when one of the
\* reports references more than one segmentation series
SegWarningForAnyReport ==
  (\E k \in DOMAIN datasets :
     Cardinality(SeriesOfClass(datasets[k], UID_SegmentationStorage)) > 1)
    => "SR references more than one SEG. This has not been tested!"
         \in Range(loadable.warnings)

\* lines 143-144: the RWVM warning is there when one of the reports
\* references more than one RWVM series
RwvmWarningForAnyReport ==
  (\E k \in DOMAIN datasets :
     Cardinality(SeriesOfClass(datasets[k], UID_RealWorldValueMappingStorage)) > 1)
    => "SR references more than one RWVM. This has not been tested!"
         \in Range(loadable.warnings)

RwvmWarningWhenReturned == rpc = "done" => RwvmWarningForAnyReport

\* C18: the returned loadable comes with the SEG warning whenever one of the
\* reports references more than one segmentation series, and with the RWVM
\* warning whenever one of them references more than one RWVM series.
C18_WarningForAnyReport ==
  rpc = "done" => SegWarningForAnyReport /\ RwvmWarningForAnyReport

(***************************************************************************)
(* Claims on checkIfSRContainsBbox                                         *)
(***************************************************************************)

\* some qualitative evaluation of some group of the report is
\* 'Geometric purpose of region' = 'Bounded by'
SomeEvaluationIsBoundedBy(report) ==
  \E g \in Range(report.groups) : \E e \in Range(g.qual_evals) : IsBoundedBy(e)

\* C20: checkIfSRContainsBbox answers 1 exactly when at least one qualitative
\* evaluation of at least one planar ROI measurement group is 'Geometric
\* purpose of region' = 'Bounded by', wherever it stands among the
\* evaluations and the groups.
C20_BboxIffSomeEvaluationBoundedBy ==
  cres # <<>> =>
    (cres[1].containsBbox = 1 <=> SomeEvaluationIsBoundedBy(csr))

(***************************************************************************)
(* Claims on the table of measurements                                     *)
(***************************************************************************)

\* the row of the r-th measurement has its tracking identifier in column 0
\* and the values of its first n items in the columns 1..n
RowHoldsItems(r, n) ==
  /\ trows[r][1] = tdata.Measurements[r].TrackingIdentifier
  /\ \A k \in 1..n :
       /\ k + 1 \in DOMAIN trows[r]
       /\ trows[r][k + 1] = tdata.Measurements[r].measurementItems[k].value

\* C21: the table has one row per measurement, in input order, with the
\* tracking identifier in column 0 and the value of the k-th item in column
\* k+1 for every item of every measurement, also of a measurement with more
\* or fewer items than the first one.
C21_EveryItemHasItsCell ==
  tpc = "returned" =>
    /\ Len(trows) = Len(tdata.Measurements)
    /\ \A r \in DOMAIN trows :
         RowHoldsItems(r, Len(tdata.Measurements[r].measurementItems))

\* the same for the items the first measurement has a column for
RowsHoldItemsWithColumns ==
  tpc = "returned" =>
    /\ Len(trows) = Len(tdata.Measurements)
    /\ \A r \in DOMAIN trows :
         /\ Len(trows[r]) = Len(tcolumns)
         /\ RowHoldsItems(r, IF Len(tdata.Measurements[r].measurementItems) < Len(tcolumns) - 1
                             THEN Len(tdata.Measurements[r].measurementItems)
                             ELSE Len(tcolumns) - 1)

(***************************************************************************)
(* Claims on the records of the bounding boxes                             *)
(***************************************************************************)

\* the group is an image region drawn as a polyline whose referenced
\* instance can be read
IsReadablePolylineRegion(group) ==
  /\ group.reference_type = ImageRegion
  /\ group.roi.GraphicType = "POLYLINE"
  /\ Len(group.roi.ContentSequence) > 0

\* the record holds the polyline, the size, the centre and the referenced
\* instance of the ROI of the group
HoldsGeometryOf(info, group) ==
  LET own == BoxOf(NoLocals, group.roi.GraphicData)
      sop == group.roi.ContentSequence[1].referenced_sop_instance_uid
  IN  /\ info.SOPInstanceUID = sop
      /\ info.polyline = << <<own.bbox[1], own.bbox[2]>>, <<own.bbox[3], own.bbox[4]>>,
                            <<own.bbox[5], own.bbox[6]>>, <<own.bbox[7], own.bbox[8]>> >>
      /\ info.width = own.width
      /\ info.height = own.height
      /\ info.center_x = 0 - own.center_x
      /\ info.center_y = 0 - own.center_y
      /\ sop \in DOMAIN SeriesIPP
      /\ info.center_z = SeriesIPP[sop]

\* C22: the k-th record is that of the k-th group and holds the geometry of
\* that group's own ROI; a group that is not a polyline image region with a
\* readable referenced instance has no record made of an earlier group's
\* geometry.
C22_RecordHoldsOwnGeometry ==
  \A k \in DOMAIN poly_infos :
    /\ poly_infos[k].TrackingIdentifier = bsr.groups[k].tracking_identifier
    /\ IsReadablePolylineRegion(bsr.groups[k])
    /\ HoldsGeometryOf(poly_infos[k], bsr.groups[k])

\* the same for the records of the polyline image regions with a readable
\* referenced instance
RecordOfPolylineHoldsOwnGeometry ==
  \A k \in DOMAIN poly_infos :
    /\ poly_infos[k].TrackingIdentifier = bsr.groups[k].tracking_identifier
    /\ IsReadablePolylineRegion(bsr.groups[k])
         => HoldsGeometryOf(poly_infos[k], bsr.groups[k])

(***************************************************************************)
(* Claims on the answer of load                                            *)
(***************************************************************************)

\* C23: load returns True exactly when it got to the end of the loop of the
\* reports without a failure return and some report went through
\* tid1500reader, with or without a table; it returns False when every
\* report was a point or bounding-box report.
C23_TrueIffSomeReportWentThroughReader ==
  lpc = "returned" =>
    /\ lret <=> /\ idx = Len(sortedUIDs)
                /\ "none" \notin Range(paths)
                /\ "plugin" \in Range(paths)
    /\ Range(paths) \subseteq {"point", "bbox"} => ~lret

\* load has returned True after a bounding-box or point report and a report
\* whose metadata gave no table
C23_Witness ==
  /\ lpc = "returned"
  /\ lret
  /\ Len(tables) > 0
  /\ \A k \in DOMAIN tables : tables[k] = None
  /\ \E k \in DOMAIN paths : paths[k] \in {"point", "bbox"}

(***************************************************************************)
(* Claims on referencedSegInstanceUIDs                                     *)
(***************************************************************************)

\* the segmentation series collected in ReferencedSegmentationInstanceUIDs,
\* report by report
CollectedSegSeries ==
  Concat([k \in DOMAIN loadable.ReferencedSegmentationInstanceUIDs.keys |->
            loadable.ReferencedSegmentationInstanceUIDs.map[
              loadable.ReferencedSegmentationInstanceUIDs.keys[k]]])

\* C24: the returned loadable has in referencedSegInstanceUIDs exactly the
\* segmentation series the reports reference, and the SOP instance UID of no
\* report.
C24_SegInstanceUIDsAreSegSeries ==
  rpc = "done" =>
    /\ loadable.referencedSegInstanceUIDs = CollectedSegSeries
    /\ \A k \in DOMAIN datasets :
         datasets[k].SOPInstanceUID \notin Range(loadable.referencedSegInstanceUIDs)

\* what lines 140-141 leave there: the keys of the dict, one per report
SegInstanceUIDsAreReportUIDs ==
  rpc = "done" =>
    loadable.referencedSegInstanceUIDs =
      [k \in DOMAIN datasets |-> datasets[k].SOPInstanceUID]

=============================================================================
